---- MODULE Spec2Model ----
(***************************************************************************)
(* A model of the ai-gateway request path: the provider registry and its   *)
(* circuit breaker (routing/provider-registry.ts), the latency tracker     *)
(* (metrics/latency-tracker.ts), the routing rules engine and the model    *)
(* selector, the fallback handler (routing/fallback-handler.ts) and the    *)
(* smart-router / cache / chat-handler part of the middleware chain.       *)
(*                                                                         *)
(* Time is the wall clock Date.now() in milliseconds.  Every synchronous   *)
(* function of the source is one atomic action (the runtime is single      *)
(* threaded); an await is a boundary between two actions.                  *)
(***************************************************************************)
EXTENDS Integers, Sequences, FiniteSets, TLC

VARIABLES
    now,            \* Date.now()
    providers,      \* ProviderRegistry.providers : id -> ProviderEntry
    latency,        \* LatencyTracker.state : id -> ProviderLatencyState
    lastRead,       \* history: the latest availability read of each provider
    openedAtEver,   \* history: when the circuit of each provider was last opened
    halfOpen,       \* history: cooldown elapsed and a read admitted the probe
    probeAdmits,    \* history: reads that saw "available" since then
    \* -- one executeWithFallback call (routing/fallback-handler.ts)
    fbConfig,       \* its inputs: providers, streaming, config.maxRetries
    fbPc,           \* where the call stands
    fbIdx,          \* index of `provider` in the for-of loop over providers
    attempt,        \* tryProvider's loop counter
    attempts,       \* the RetryAttempt[] log
    overallAborted, \* overallController.signal.aborted
    timer,          \* the setTimeout of the overall deadline is pending
    sleepLeft,      \* what is left of the backoff tryProvider sleeps in
    controllers,    \* every per-attempt AbortController created so far
    attemptController, \* tryProvider's attemptController: index, 0 is null
    execLog,        \* history: the executeFn calls made, in order
    exhausted,      \* history: provider indices left after a failed attempt
    fbOutcome,      \* what the call returned or threw
    \* -- the middleware chain from smartRouter to the chat handler
    apiKeys,        \* providers whose API key is configured (process.env)
    capabilities,   \* CAPABILITIES_MAP of config/models.ts: modelId -> capabilities
    cache,          \* the semantic cache: the documents of the vector index
    stores,         \* the cacheResponse calls under way, each with its document
    cacheEnabled,   \* cacheConfig.enabled (env.CACHE_ENABLED)
    nodeEnv,        \* env.NODE_ENV
    errorTracker,   \* services/error-tracker.ts: the state of the module
    totalRequests,  \* services/metrics.ts: the counter recordRequest increments
    costTracker,    \* services/cost-tracker.ts: the state of the module
    requests,       \* the requests: request number -> where it stands
    rateLimitEnabled, \* env.RATE_LIMIT_ENABLED
    isShuttingDown, \* index.ts: the flag of the drain middleware
    \* -- the rate limiter (middleware/rate-limiter.ts, utils/token-bucket.ts)
    buckets,        \* the bucket registry: provider -> TokenBucket, lazily created
    acquireLog      \* history: the calls made on the buckets by BucketSpec

registryVars == <<providers, latency, lastRead, openedAtEver, halfOpen, probeAdmits>>
fallbackVars == <<fbConfig, fbPc, fbIdx, attempt, attempts, overallAborted, timer,
                  sleepLeft, controllers, attemptController, execLog, exhausted, fbOutcome>>
trackerVars == <<errorTracker, totalRequests, costTracker>>
pipelineVars == <<apiKeys, capabilities, cache, stores, cacheEnabled, nodeEnv, trackerVars,
                  requests,
                  rateLimitEnabled, isShuttingDown>>
bucketVars == <<buckets, acquireLog>>
vars == <<now, registryVars, fallbackVars, pipelineVars, bucketVars>>
nonFallbackVars == <<now, registryVars, pipelineVars, bucketVars>>
nonRegistryVars == <<fallbackVars, pipelineVars, bucketVars>>

----------------------------------------------------------------------------
(* Bounds of the model *)

\* the clock advances at most this many times
MaxTicks == 4
\* reportError is not called for a provider whose count reached this bound
MaxErrors == 6
\* the history counter probeAdmits stops counting here
MaxProbeCount == 2
\* executeWithFallback is given at most this many providers
MaxProviders == 2
\* config.maxRetries ranges over 0..MaxRetriesConfig
MaxRetriesConfig == 2
\* the requests the gateway serves
MaxRequests == 1
\* the wall clock read by a token bucket takes the values 0..MaxBucketSteps
\* half seconds, and at most MaxBucketCalls calls are made on the buckets
MaxBucketSteps == 3
MaxBucketCalls == 3
\* maxTokens of a bucket ranges over 1..MaxBucketTokens, refillRate over
\* 1..MaxRefillRate tokens per second
MaxBucketTokens == 2
MaxRefillRate == 2
\* env.RATE_LIMIT_MAX_TOKENS, the size of the bucket of every provider
RATE_LIMIT_MAX_TOKENS == 1
\* config.baseBackoffMs and config.maxBackoffMs, in steps of the backoff clock
BaseBackoffSteps == 1
MaxBackoffSteps == 2

----------------------------------------------------------------------------
(* Program constants *)

CIRCUIT_BREAKER_THRESHOLD == 5
CIRCUIT_BREAKER_COOLDOWN_MS == 30000
\* null of `number | null`
NULL == -1
\* Number.POSITIVE_INFINITY
INFINITY == 1000000000
\* routing-config.ts: latencyWindowSize (ROUTING_LATENCY_WINDOW)
latencyWindowSize == 3
\* routing-config.ts: latencyEmaAlpha, in tenths
latencyEmaAlphaTenths == 3

\* one step of the clock: half a cooldown
TickMs == CIRCUIT_BREAKER_COOLDOWN_MS \div 2
MaxTime == MaxTicks * TickMs

AllProviders == {"openai", "anthropic", "google"}

----------------------------------------------------------------------------
(* metrics/aggregator.ts, metrics/latency-tracker.ts *)

\* calculateEma, on whole milliseconds
calculateEma(currentEma, newValue) ==
    (latencyEmaAlphaTenths * newValue + (10 - latencyEmaAlphaTenths) * currentEma) \div 10

\* the samples sorted ascending: sorted[k] is the k-th smallest
RECURSIVE SortedSeq(_)
SortedSeq(s) ==
    IF s = <<>> THEN <<>>
    ELSE LET i == CHOOSE k \in 1..Len(s) : \A j \in 1..Len(s) : s[k] <= s[j]
             rest == [j \in 1..(Len(s) - 1) |-> IF j < i THEN s[j] ELSE s[j + 1]]
         IN <<s[i]>> \o SortedSeq(rest)

\* calculatePercentile: nearest rank, index = ceil(p/100 * N) - 1
calculatePercentile(samples, percentile) ==
    IF samples = <<>> THEN 0
    ELSE LET sorted == SortedSeq(samples)
             n == Len(sorted)
         IN IF percentile = 0 THEN sorted[1]
            ELSE IF percentile = 100 THEN sorted[n]
            ELSE LET rank == ((percentile * n + 99) \div 100) - 1
                 IN sorted[(IF rank < 0 THEN 0 ELSE rank) + 1]

NoLatencyState == [samples |-> <<>>, ema |-> 0, initialised |-> FALSE]

\* LatencyTracker.recordLatency: the sample is appended and the EMA updated
\* whatever `success` is
recordLatency(st, totalMs, success) ==
    LET ema == IF st.initialised THEN calculateEma(st.ema, totalMs) ELSE totalMs
        pushed == Append(st.samples, totalMs)
        samples == IF Len(pushed) > latencyWindowSize THEN Tail(pushed) ELSE pushed
    IN [samples |-> samples, ema |-> ema, initialised |-> TRUE]

\* LatencyTracker.getStats
getStats(st) ==
    IF ~st.initialised \/ st.samples = <<>>
    THEN [sampleCount |-> 0, emaMs |-> 0, p95Ms |-> 0]
    ELSE [sampleCount |-> Len(st.samples), emaMs |-> st.ema,
          p95Ms |-> calculatePercentile(st.samples, 95)]

----------------------------------------------------------------------------
(* routing/provider-registry.ts *)

\* the constructor's entry
NewEntry ==
    [consecutiveErrors |-> 0, lastErrorAt |-> NULL, circuitOpenedAt |-> NULL,
     rateLimitRemaining |-> INFINITY, rateLimitResetAt |-> 0]

\* isAvailableEntry: the value it returns
isAvailableEntry(entry, t) ==
    IF entry.circuitOpenedAt # NULL
    THEN ~((t - entry.circuitOpenedAt) < CIRCUIT_BREAKER_COOLDOWN_MS)
    ELSE TRUE

\* a half-open transition that keeps the count of errors
isAvailableEntryEffectKeepsCount(entry, t) ==
    IF entry.circuitOpenedAt # NULL
       /\ ~((t - entry.circuitOpenedAt) < CIRCUIT_BREAKER_COOLDOWN_MS)
    THEN [entry EXCEPT !.circuitOpenedAt = NULL]
    ELSE entry

\* isAvailableEntry: the entry it leaves (it writes inside the read)
isAvailableEntryEffect(entry, t) ==
    IF entry.circuitOpenedAt # NULL
       /\ ~((t - entry.circuitOpenedAt) < CIRCUIT_BREAKER_COOLDOWN_MS)
    THEN [entry EXCEPT !.circuitOpenedAt = NULL, !.consecutiveErrors = 0]
    ELSE entry

\* an effectiveRateLimit that counts every window as replenished
effectiveRateLimitReplenished(entry, t) ==
    IF entry.rateLimitResetAt > 0 THEN INFINITY ELSE entry.rateLimitRemaining

\* effectiveRateLimit
effectiveRateLimit(entry, t) ==
    IF entry.rateLimitResetAt > 0 /\ t >= entry.rateLimitResetAt
    THEN INFINITY
    ELSE entry.rateLimitRemaining

\* one element of the getProviderStates snapshot
ProviderStateOf(id, entry, lat, t) ==
    [id |-> id,
     available |-> isAvailableEntry(entry, t),
     rateLimitRemaining |-> effectiveRateLimit(entry, t),
     rateLimitResetAt |-> entry.rateLimitResetAt,
     latency |-> getStats(lat),
     lastErrorAt |-> entry.lastErrorAt,
     \* read after isAvailableEntry has run on the entry
     consecutiveErrors |-> isAvailableEntryEffect(entry, t).consecutiveErrors]

\* getProviderStates: the snapshot it returns (id -> ProviderState)
getProviderStates(reg, lats, t) ==
    [id \in DOMAIN reg |-> ProviderStateOf(id, reg[id], lats[id], t)]

\* getProviderStates: the registry it leaves
getProviderStatesEffect(reg, t) ==
    [id \in DOMAIN reg |-> isAvailableEntryEffect(reg[id], t)]

\* a reportSuccess that leaves an open circuit open
reportSuccessEntryKeepsCircuit(entry) ==
    [entry EXCEPT !.consecutiveErrors = 0]

\* reportSuccess: the entry it leaves
reportSuccessEntry(entry) ==
    [entry EXCEPT !.consecutiveErrors = 0, !.circuitOpenedAt = NULL]

\* a reportError that trips the breaker one error late
reportErrorEntryLateTrip(entry, t) ==
    LET count == entry.consecutiveErrors + 1
        trip == count > CIRCUIT_BREAKER_THRESHOLD /\ entry.circuitOpenedAt = NULL
    IN [entry EXCEPT !.consecutiveErrors = count,
                     !.lastErrorAt = t,
                     !.circuitOpenedAt = IF trip THEN t ELSE @]

\* reportError: the entry it leaves
reportErrorEntry(entry, t) ==
    LET count == entry.consecutiveErrors + 1
        trip == count >= CIRCUIT_BREAKER_THRESHOLD /\ entry.circuitOpenedAt = NULL
    IN [entry EXCEPT !.consecutiveErrors = count,
                     !.lastErrorAt = t,
                     !.circuitOpenedAt = IF trip THEN t ELSE @]

\* updateRateLimit: the entry it leaves
updateRateLimitEntry(entry, remaining, resetAt) ==
    [entry EXCEPT !.rateLimitRemaining = remaining, !.rateLimitResetAt = resetAt]

----------------------------------------------------------------------------
(* utils/token-bucket.ts.  tokens is kept in thousandths of a token, so    *)
(* that a refill over whole milliseconds at a whole rate per second is     *)
(* exact: elapsedSeconds * refillRate tokens = elapsedMs * refillRate      *)
(* thousandths                                                             *)

MilliTokens == 1000

\* env.RATE_LIMIT_REFILL_RATE, tokens per second
RATE_LIMIT_REFILL_RATE == 1

\* no bucket has been created for the provider yet
NoBucket == [maxTokens |-> 0, refillRate |-> 0, tokens |-> 0, lastRefillAt |-> 0]

\* new TokenBucket(maxTokens, refillRate) at time t: the bucket starts full
TokenBucket(maxTokens, refillRate, t) ==
    [maxTokens |-> maxTokens, refillRate |-> refillRate,
     tokens |-> maxTokens * MilliTokens, lastRefillAt |-> t]

\* refill at time t: Math.min(maxTokens, tokens + elapsedSeconds * refillRate)
refill(bucket, t) ==
    LET added == bucket.tokens + (t - bucket.lastRefillAt) * bucket.refillRate
        full == bucket.maxTokens * MilliTokens
    IN [bucket EXCEPT !.tokens = IF added < full THEN added ELSE full,
                      !.lastRefillAt = t]

\* a tryAcquire that hands out a token while any fraction of one is left
tryAcquirePartialToken(bucket, t) ==
    LET refilled == refill(bucket, t)
    IN IF refilled.tokens <= 0
       THEN [bucket |-> refilled, result |-> FALSE]
       ELSE [bucket |-> [refilled EXCEPT !.tokens = @ - MilliTokens], result |-> TRUE]

\* tryAcquire at time t: the bucket it leaves and what it returns
tryAcquire(bucket, t) ==
    LET refilled == refill(bucket, t)
    IN IF refilled.tokens < MilliTokens
       THEN [bucket |-> refilled, result |-> FALSE]
       ELSE [bucket |-> [refilled EXCEPT !.tokens = @ - MilliTokens], result |-> TRUE]

\* getRemaining at time t: Math.floor(tokens) after the refill
getRemaining(bucket, t) ==
    LET refilled == refill(bucket, t)
    IN [bucket |-> refilled, result |-> refilled.tokens \div MilliTokens]

\* getRetryAfter at time t: 0 with a whole token, else
\* Math.ceil((1 - tokens) / refillRate)
getRetryAfter(bucket, t) ==
    LET refilled == refill(bucket, t)
        deficit == MilliTokens - refilled.tokens
        perSecond == MilliTokens * refilled.refillRate
    IN [bucket |-> refilled,
        result |-> IF refilled.tokens >= MilliTokens THEN 0
                   ELSE (deficit + perSecond - 1) \div perSecond]

----------------------------------------------------------------------------
(* History kept beside the registry, for the circuit-breaker properties *)

NoRead == [at |-> NULL, available |-> FALSE]

\* a read of p at time t that returned `avail`, on the entry `entry`
ReadHistory(p, entry, t) ==
    LET avail == isAvailableEntry(entry, t)
        admits == entry.circuitOpenedAt # NULL /\ avail
    IN [read |-> [at |-> t, available |-> avail],
        halfOpen |-> halfOpen[p] \/ admits,
        probeAdmits |->
            IF admits THEN 1
            ELSE IF halfOpen[p] /\ avail /\ probeAdmits[p] < MaxProbeCount
                 THEN probeAdmits[p] + 1
                 ELSE probeAdmits[p]]

\* registry calls as one state change each; the callers below and the
\* middleware chain use them
DoRead(ids) ==
    /\ providers' = [id \in DOMAIN providers |->
                        IF id \in ids THEN isAvailableEntryEffect(providers[id], now)
                        ELSE providers[id]]
    /\ lastRead' = [id \in DOMAIN providers |->
                        IF id \in ids THEN ReadHistory(id, providers[id], now).read
                        ELSE lastRead[id]]
    /\ halfOpen' = [id \in DOMAIN providers |->
                        IF id \in ids THEN ReadHistory(id, providers[id], now).halfOpen
                        ELSE halfOpen[id]]
    /\ probeAdmits' = [id \in DOMAIN providers |->
                        IF id \in ids THEN ReadHistory(id, providers[id], now).probeAdmits
                        ELSE probeAdmits[id]]
    /\ UNCHANGED <<latency, openedAtEver>>

DoReportSuccess(p, latencyMs) ==
    /\ providers' = [providers EXCEPT ![p] = reportSuccessEntry(@)]
    /\ latency' = [latency EXCEPT ![p] = recordLatency(@, latencyMs, TRUE)]
    /\ lastRead' = [lastRead EXCEPT ![p] = NoRead]
    /\ halfOpen' = [halfOpen EXCEPT ![p] = FALSE]
    /\ probeAdmits' = [probeAdmits EXCEPT ![p] = 0]
    /\ UNCHANGED openedAtEver

DoReportError(p) ==
    /\ providers' = [providers EXCEPT ![p] = reportErrorEntry(@, now)]
    /\ latency' = [latency EXCEPT ![p] = recordLatency(@, 0, FALSE)]
    /\ lastRead' = [lastRead EXCEPT ![p] = NoRead]
    /\ halfOpen' = [halfOpen EXCEPT ![p] = FALSE]
    /\ probeAdmits' = [probeAdmits EXCEPT ![p] = 0]
    /\ openedAtEver' = [openedAtEver EXCEPT ![p] =
                            IF reportErrorEntry(providers[p], now).circuitOpenedAt
                                   # providers[p].circuitOpenedAt
                            THEN now ELSE @]

----------------------------------------------------------------------------
(* config/routing-config.ts, config/routes.ts, services/router/index.ts *)

\* MODEL_PRICING, in 1e-5 dollars per 1K tokens, in the order of the array
MODEL_PRICING ==
    << [modelId |-> "gpt-4o", provider |-> "openai",
        inputPer1k |-> 250, outputPer1k |-> 1000],
       [modelId |-> "gpt-4o-mini", provider |-> "openai",
        inputPer1k |-> 15, outputPer1k |-> 60],
       [modelId |-> "claude-sonnet-4-20250514", provider |-> "anthropic",
        inputPer1k |-> 300, outputPer1k |-> 1500],
       [modelId |-> "claude-haiku-3-5", provider |-> "anthropic",
        inputPer1k |-> 80, outputPer1k |-> 400],
       [modelId |-> "gemini-2.0-flash", provider |-> "google",
        inputPer1k |-> 10, outputPer1k |-> 40],
       [modelId |-> "gemini-2.0-pro", provider |-> "google",
        inputPer1k |-> 125, outputPer1k |-> 500] >>

\* DEFAULT_ROUTING_RULES; maxCostPer1kTokens in 1e-5 dollars
DEFAULT_ROUTING_RULES ==
    { [id |-> "budget-mode", priority |-> 10,
       condition |-> [type |-> "cost", max |-> 500],
       preferredProviders |-> {"google", "openai"}, excludeProviders |-> {}],
      [id |-> "low-latency", priority |-> 20,
       condition |-> [type |-> "latency", max |-> 1000],
       preferredProviders |-> {"openai"}, excludeProviders |-> {}] }

\* ROUTE_CONFIG: primary target first, then the fallbacks
ROUTE_CONFIG ==
    [m \in {"smart-model", "fast-model", "gpt-4o", "claude-sonnet-4-20250514",
            "gemini-2.0-flash"} |->
        CASE m = "smart-model" ->
                << [provider |-> "anthropic", model |-> "claude-sonnet-4-20250514"],
                   [provider |-> "openai", model |-> "gpt-4o"] >>
          [] m = "fast-model" ->
                << [provider |-> "openai", model |-> "gpt-4o-mini"],
                   [provider |-> "google", model |-> "gemini-2.0-flash"] >>
          [] m = "gpt-4o" ->
                << [provider |-> "openai", model |-> "gpt-4o"],
                   [provider |-> "anthropic", model |-> "claude-sonnet-4-20250514"] >>
          [] m = "claude-sonnet-4-20250514" ->
                << [provider |-> "anthropic", model |-> "claude-sonnet-4-20250514"],
                   [provider |-> "openai", model |-> "gpt-4o"] >>
          [] m = "gemini-2.0-flash" ->
                << [provider |-> "google", model |-> "gemini-2.0-flash"] >>]

\* the model names are atoms here; the prefix each of them starts with
ModelPrefix ==
    [m \in {"gpt-4o", "gpt-4o-mini", "gpt-4-turbo", "claude-sonnet-4-20250514",
            "claude-haiku-3-5", "gemini-2.0-flash", "gemini-2.0-pro",
            "smart-model", "fast-model", "mistral-large",
            "gpt-4o*", "gpt-4o|gpt-4o-mini"} |->
        CASE m \in {"gpt-4o", "gpt-4o-mini", "gpt-4-turbo", "gpt-4o*",
                    "gpt-4o|gpt-4o-mini"} -> "gpt-"
          [] m \in {"claude-sonnet-4-20250514", "claude-haiku-3-5"} -> "claude-"
          [] m \in {"gemini-2.0-flash", "gemini-2.0-pro"} -> "gemini-"
          [] OTHER -> "none"]

\* detectProvider: "null" when no known prefix matches
detectProvider(modelId) ==
    CASE ModelPrefix[modelId] \in {"gpt-", "o1-", "o3-", "chatgpt-"} -> "openai"
      [] ModelPrefix[modelId] \in {"claude-"} -> "anthropic"
      [] ModelPrefix[modelId] \in {"gemini-"} -> "google"
      [] OTHER -> "null"

\* resolveTargets
resolveTargets(requestedModel) ==
    IF requestedModel \in DOMAIN ROUTE_CONFIG
    THEN ROUTE_CONFIG[requestedModel]
    ELSE IF detectProvider(requestedModel) # "null"
         THEN << [provider |-> detectProvider(requestedModel), model |-> requestedModel] >>
         ELSE << [provider |-> "openai", model |-> requestedModel] >>

\* routeModel: the first target whose model factory does not throw (getModel
\* throws when the provider's API key is not configured); "throws" otherwise
routeModel(requestedModel, keys) ==
    LET targets == resolveTargets(requestedModel)
        built == {k \in DOMAIN targets : targets[k].provider \in keys}
    IN IF built = {}
       THEN [throws |-> TRUE, provider |-> "none", modelId |-> "none"]
       ELSE LET k == CHOOSE i \in built : \A j \in built : i <= j
            IN [throws |-> FALSE, provider |-> targets[k].provider,
                modelId |-> targets[k].model]

----------------------------------------------------------------------------
(* routing/rule-evaluator.ts, routing/rules-engine.ts *)

\* evaluateCostRule: some model of the provider has an average of input and
\* output price within the threshold
evaluateCostRule(condition, provider) ==
    \E k \in DOMAIN MODEL_PRICING :
        /\ MODEL_PRICING[k].provider = provider.id
        /\ MODEL_PRICING[k].inputPer1k + MODEL_PRICING[k].outputPer1k
              <= 2 * condition.max

\* evaluateLatencyRule: the snapshot always carries a `latency` object (zeros
\* when nothing was observed), so `!provider.latency` is never true
evaluateLatencyRule(condition, provider) ==
    provider.latency.p95Ms <= condition.max

\* evaluateCapabilityRule
evaluateCapabilityRule(condition, providerCapabilities) ==
    condition.required \subseteq providerCapabilities

\* evaluateCondition
evaluateCondition(condition, provider, providerCapabilities) ==
    CASE condition.type = "cost" -> evaluateCostRule(condition, provider)
      [] condition.type = "latency" -> evaluateLatencyRule(condition, provider)
      [] condition.type = "capability" ->
            evaluateCapabilityRule(condition, providerCapabilities)

\* RoutingRulesEngine.filterAvailable: the ids it keeps
filterAvailable(states, t) ==
    {id \in DOMAIN states :
        /\ states[id].available
        /\ ~(states[id].rateLimitRemaining <= 0 /\ states[id].rateLimitResetAt > t)}

\* RoutingRulesEngine.buildCandidates: provider by provider in the order of
\* the snapshot, model by model in the order of MODEL_PRICING (the array
\* lists the providers in the registry's order).  The smart router sets no
\* requiredCapabilities, so checkCapabilities passes
buildCandidates(avail, request, caps) ==
    SelectSeq(MODEL_PRICING,
              LAMBDA m : /\ m.provider \in avail
                         /\ request.stream => "streaming" \in caps[m.modelId])

\* RoutingRulesEngine.evaluateRules: the ids of the rules that pass
evaluateRules(provider, providerCapabilities) ==
    {rule.id : rule \in {r \in DEFAULT_ROUTING_RULES :
                            evaluateCondition(r.condition, provider,
                                              providerCapabilities)}}

\* RoutingRulesEngine.ruleApplies; hints is "none" or the strategy hinted
ruleApplies(rule, request) ==
    IF request.hints = "none" THEN TRUE
    ELSE CASE rule.condition.type = "cost" -> request.hints = "cost"
           [] rule.condition.type = "latency" -> request.hints = "latency"
           [] rule.condition.type = "capability" -> TRUE

\* RoutingRulesEngine.applyExclusions
applyExclusions(candidates, states, request, caps) ==
    SelectSeq(candidates,
              LAMBDA c : ~\E rule \in DEFAULT_ROUTING_RULES :
                            /\ ruleApplies(rule, request)
                            /\ c.provider \in rule.excludeProviders
                            /\ evaluateCondition(rule.condition, states[c.provider],
                                                 caps[c.modelId]))

\* RoutingRulesEngine.computeCost, doubled: input plus output price
computeCost(pricing) == pricing.inputPer1k + pricing.outputPer1k

\* the latency scoreAndRank falls back on when `provider.latency` is missing
DEFAULT_LATENCY_MS == 500

\* RoutingRulesEngine.computeLatency: `provider.latency` is always there, so
\* DEFAULT_LATENCY_MS is never used
computeLatency(provider) == provider.latency.emaMs

\* the priorities of the rules in `rules`, summed
SumPriority(rules) ==
    LET ids == {r.id : r \in rules}
        prio(id) == (CHOOSE r \in rules : r.id = id).priority
        sum[S \in SUBSET ids] ==
            IF S = {} THEN 0
            ELSE LET id == CHOOSE x \in S : TRUE IN prio(id) + sum[S \ {id}]
    IN sum[ids]

\* RoutingRulesEngine.computePreferenceBoost, in units of
\* PREFERENCE_BOOST_FACTOR
computePreferenceBoost(providerId, matchedRules) ==
    SumPriority({r \in DEFAULT_ROUTING_RULES :
                    r.id \in matchedRules /\ providerId \in r.preferredProviders})

\* RoutingRulesEngine.computeCapabilityScore without required capabilities,
\* in fifths: min(available.length / MAX_CAPABILITY_BASELINE, 1)
computeCapabilityScore(available) ==
    IF Cardinality(available) > 5 THEN 5 ELSE Cardinality(available)

\* F applied to the value of v, v being computed once
Let(v, F(_)) == CHOOSE r \in {F(x) : x \in {v}} : TRUE

\* the function f as the table of its values
Table(f) == f @@ << >>

\* the greatest common divisor; GCD[a, 0] = a
GCD[a \in Nat, b \in Nat] == IF b = 0 THEN a ELSE GCD[b, a % b]

\* the greatest common divisor of the values d[1..Len(d)] of a sequence
GCDAll(d) ==
    LET g[k \in 0..Len(d)] == IF k = 0 THEN 0 ELSE GCD[d[k], g[k - 1]]
    IN g[Len(d)]

SetMax(S) == CHOOSE x \in S : \A y \in S : y <= x
SetMin(S) == CHOOSE x \in S : \A y \in S : x <= y

\* Array.prototype.sort with a comparator that orders by an integer key,
\* ascending; it is stable: s[i] goes to the place after the elements of
\* smaller key and the earlier elements of its own key
SortByKey(s, key) ==
    Let(s \o << >>, LAMBDA sv :
    Let(key \o << >>, LAMBDA kv :
        LET place(i) == 1 + Cardinality({j \in DOMAIN kv :
                                \/ kv[j] < kv[i]
                                \/ kv[j] = kv[i] /\ j < i})
        IN [p \in DOMAIN sv |-> sv[CHOOSE i \in DOMAIN sv : place(i) = p]]
              \o << >>))

\* RoutingRulesEngine.scoreAndRank.  A score is kept as the integer
\* 100 * DC * DL * score, DC and DL being the reduced denominators of the
\* normalised cost and latency, the same for every candidate of one call
scoreAndRank(candidates, states, caps) ==
    Let(candidates, LAMBDA cs :
    Let([k \in DOMAIN cs |-> computeCost(cs[k])] \o << >>, LAMBDA costs :
    Let([k \in DOMAIN cs |-> computeLatency(states[cs[k].provider])] \o << >>,
        LAMBDA latencies :
    Let([k \in DOMAIN cs |->
            evaluateRules(states[cs[k].provider], caps[cs[k].modelId])] \o << >>,
        LAMBDA matched :
    Let([minCost |-> SetMin({costs[k] : k \in DOMAIN cs}),
         maxCost |-> SetMax({costs[k] : k \in DOMAIN cs}),
         minLatency |-> SetMin({latencies[k] : k \in DOMAIN cs}),
         maxLatency |-> SetMax({latencies[k] : k \in DOMAIN cs})], LAMBDA m :
    Let([gC |-> GCDAll([k \in DOMAIN cs |-> costs[k] - m.minCost]),
         gL |-> GCDAll([k \in DOMAIN cs |-> latencies[k] - m.minLatency])],
        LAMBDA g :
        LET DC == IF m.maxCost = m.minCost THEN 1
                  ELSE (m.maxCost - m.minCost) \div g.gC
            DL == IF m.maxLatency = m.minLatency THEN 1
                  ELSE (m.maxLatency - m.minLatency) \div g.gL
            NC(k) == IF m.maxCost = m.minCost THEN 0
                     ELSE (costs[k] - m.minCost) \div g.gC
            NL(k) == IF m.maxLatency = m.minLatency THEN 0
                     ELSE (latencies[k] - m.minLatency) \div g.gL
            score(k) ==
                30 * (DC - NC(k)) * DL
                + 40 * (DL - NL(k)) * DC
                + 6 * computeCapabilityScore(caps[cs[k].modelId]) * DC * DL
                + 5 * computePreferenceBoost(cs[k].provider, matched[k]) * DC * DL
        IN Let([k \in DOMAIN cs |->
                   [provider |-> cs[k].provider,
                    modelId |-> cs[k].modelId,
                    score |-> score(k),
                    matchedRules |-> matched[k]]] \o << >>,
               LAMBDA scored :
                   SortByKey(scored,
                             [k \in DOMAIN scored |-> 0 - scored[k].score])
              )))))))

\* RoutingRulesEngine.evaluate
evaluate(request, states, t, caps) ==
    Let(filterAvailable(states, t), LAMBDA availableProviders :
    Let(buildCandidates(availableProviders, request, caps), LAMBDA candidates :
    Let(applyExclusions(candidates, states, request, caps), LAMBDA filtered :
        IF filtered = <<>> THEN <<>> ELSE scoreAndRank(filtered, states, caps))))

----------------------------------------------------------------------------
(* routing/model-selector.ts *)

\* a tiebreak key that puts the higher EMA first
emaDescending(lat) == 0 - getStats(lat).emaMs

\* `latencyTracker.getStats(p).emaMs || Number.POSITIVE_INFINITY`
emaOrInfinity(lat) ==
    IF getStats(lat).emaMs = 0 THEN INFINITY ELSE getStats(lat).emaMs

\* ModelSelector.selectProvider on the registry reg at time t: what it
\* returns or that it throws, and the `available` list it took it from (the
\* registry it leaves is getProviderStatesEffect)
selectProvider(reg, lats, t, request, caps) ==
    Let(Table(getProviderStates(reg, lats, t)), LAMBDA providerStates :
    Let(evaluate(request, providerStates, t, caps), LAMBDA ranked :
    Let(SelectSeq(ranked,
                  LAMBDA r : /\ providerStates[r.provider].available
                             /\ ~(providerStates[r.provider].rateLimitRemaining <= 0)),
        LAMBDA available :
    Let(SortByKey(available,
                  [k \in DOMAIN available |->
                      emaOrInfinity(lats[available[k].provider])]),
        LAMBDA byLatency :
    Let(SortByKey(byLatency,
                  [k \in DOMAIN byLatency |-> 0 - byLatency[k].score]),
        LAMBDA sorted :
        IF available = <<>>
        THEN [throws |-> TRUE, provider |-> "none", modelId |-> "none",
              score |-> 0, available |-> <<>>]
        ELSE [throws |-> FALSE, provider |-> sorted[1].provider,
              modelId |-> sorted[1].modelId, score |-> sorted[1].score,
              available |-> sorted])))))

----------------------------------------------------------------------------
(* routing/fallback-handler.ts: FallbackHandler *)

\* a tryProvider that retries a streaming call like any other
maxAttemptsIgnoringStreaming(streaming, maxRetries) ==
    maxRetries + 1

\* tryProvider: streaming disables the per-provider retries
maxAttempts(streaming, maxRetries) ==
    IF streaming THEN 1 ELSE maxRetries + 1

\* a tryProvider that leaves the previous attempt's controller alone
abortPreviousSkipped(ctrls, current) ==
    ctrls

\* tryProvider: `if (attemptController) attemptController.abort()`
abortPrevious(ctrls, current) ==
    IF current # 0 THEN [ctrls EXCEPT ![current].aborted = TRUE] ELSE ctrls

\* tryProvider: a fresh AbortController, its abort linked to the overall signal
newController(ctrls, idx) ==
    Append(ctrls, [aborted |-> FALSE, linked |-> TRUE, idx |-> idx])

\* tryProvider: overallSignal.removeEventListener("abort", onOverallAbort)
unlink(ctrls, current) ==
    [ctrls EXCEPT ![current].linked = FALSE]

\* overallController.abort(): every listener still attached runs once
onOverallAbort(ctrls) ==
    [k \in DOMAIN ctrls |->
        IF ctrls[k].linked
        THEN [ctrls[k] EXCEPT !.aborted = TRUE, !.linked = FALSE]
        ELSE ctrls[k]]

\* services/retry-strategy.ts calculateBackoff, without jitter:
\* min(max, base * 2^attempt)
calculateBackoff(attemptNo, base, max) ==
    LET raw == base * (2 ^ attemptNo)
    IN IF raw > max THEN max ELSE raw

\* the RetryAttempt pushed for one executeFn call; error "null" on success
RetryAttempt(provider, error) == [provider |-> provider, error |-> error]

\* an executeWithFallback that does not look at the overall signal after its loop
AfterLoopAlwaysExhausted(log) ==
    /\ timer' = FALSE
    /\ fbPc' = "threw"
    /\ fbOutcome' = [kind |-> "AllProvidersFailedError", statusCode |-> 503,
                     attempts |-> log, result |-> "none"]

\* executeWithFallback after its loop: clearTimeout in `finally`, then the
\* error it throws
AfterLoop(log) ==
    /\ timer' = FALSE
    /\ fbPc' = "threw"
    /\ fbOutcome' = IF overallAborted
                    THEN [kind |-> "FallbackTimeoutError", statusCode |-> 504,
                          attempts |-> log, result |-> "none"]
                    ELSE [kind |-> "AllProvidersFailedError", statusCode |-> 503,
                          attempts |-> log, result |-> "none"]

\* selectWithFallback: `ranked.map((r) => r.provider)`
providerIds(ranked) == [k \in DOMAIN ranked |-> ranked[k].provider] \o << >>

\* selectWithFallback: `new Map(ranked.map((r) => [r.provider, r.modelId]))`;
\* of two entries with one key the Map keeps the later one
providerModelMap(ranked) ==
    [p \in {ranked[k].provider : k \in DOMAIN ranked} |->
        ranked[SetMax({k \in DOMAIN ranked : ranked[k].provider = p})].modelId]

\* the modelId the executeFn of selectWithFallback calls the caller's
\* function with; "none" for an executeFn of another caller
executeModel(ranked, provider) ==
    IF ranked = << >> THEN "none" ELSE providerModelMap(ranked)[provider]

\* `Date.now() - start` when the caller's function resolved
ExecuteLatencies == {120}

\* the executeFn of selectWithFallback after the caller's function settled:
\* reportSuccess with the time it took, or reportError
WrapperReports(ok) ==
    IF fbConfig.ranked = << >>
    THEN UNCHANGED registryVars
    ELSE IF ok
         THEN \E latencyMs \in ExecuteLatencies :
                 DoReportSuccess(fbConfig.providers[fbIdx], latencyMs)
         ELSE DoReportError(fbConfig.providers[fbIdx])

\* no executeWithFallback call is running
FallbackIdle ==
    /\ fbConfig = [providers |-> <<>>, streaming |-> FALSE, maxRetries |-> 0,
                   ranked |-> <<>>]
    /\ fbPc = "idle"
    /\ fbIdx = 0
    /\ attempt = 0
    /\ attempts = <<>>
    /\ overallAborted = FALSE
    /\ timer = FALSE
    /\ sleepLeft = 0
    /\ controllers = <<>>
    /\ attemptController = 0
    /\ execLog = <<>>
    /\ exhausted = {}
    /\ fbOutcome = [kind |-> "none", statusCode |-> 0, attempts |-> <<>>, result |-> "none"]

\* executeWithFallback up to the head of its for-of loop
Call ==
    /\ fbPc = "called"
    /\ timer' = TRUE
    /\ fbIdx' = 1
    /\ fbPc' = "loop"
    /\ UNCHANGED <<fbConfig, attempt, attempts, overallAborted, sleepLeft,
                   controllers, attemptController, execLog, exhausted, fbOutcome>>
    /\ UNCHANGED nonFallbackVars

\* the head of the for-of loop: the next provider, or the end of the loop
LoopHead ==
    /\ fbPc = "loop"
    /\ IF fbIdx > Len(fbConfig.providers) \/ overallAborted
       THEN /\ AfterLoop(attempts)
            /\ UNCHANGED <<attempt, attemptController>>
       ELSE /\ fbPc' = "tryProvider"
            /\ attempt' = 0
            /\ attemptController' = 0
            /\ UNCHANGED <<timer, fbOutcome>>
    /\ UNCHANGED <<fbConfig, fbIdx, attempts, overallAborted, sleepLeft,
                   controllers, execLog, exhausted>>
    /\ UNCHANGED nonFallbackVars

\* tryProvider from the head of its loop to `await executeFn(...)`
StartAttempt ==
    /\ fbPc = "tryProvider"
    /\ IF attempt < maxAttempts(fbConfig.streaming, fbConfig.maxRetries)
       THEN LET aborted == abortPrevious(controllers, attemptController)
                fresh == newController(aborted, fbIdx)
                current == Len(fresh)
            IN /\ attemptController' = current
               /\ IF overallAborted
                  THEN /\ controllers' = unlink(fresh, current)
                       /\ fbPc' = "loop"
                       /\ fbIdx' = fbIdx + 1
                       /\ UNCHANGED execLog
                  ELSE /\ controllers' = fresh
                       /\ fbPc' = "executing"
                       /\ execLog' = Append(execLog,
                              [provider |-> fbConfig.providers[fbIdx], idx |-> fbIdx,
                               controller |-> current,
                               modelId |-> executeModel(fbConfig.ranked,
                                                        fbConfig.providers[fbIdx])])
                       /\ UNCHANGED fbIdx
       ELSE /\ fbPc' = "loop"
            /\ fbIdx' = fbIdx + 1
            /\ UNCHANGED <<controllers, attemptController, execLog>>
    /\ UNCHANGED <<fbConfig, attempt, attempts, overallAborted, timer, sleepLeft,
                   exhausted, fbOutcome>>
    /\ UNCHANGED nonFallbackVars

\* executeFn resolves with `value` ("value", or "undefined" for a T that
\* admits undefined)
ExecuteResolves(value) ==
    /\ fbPc = "executing"
    /\ attempts' = Append(attempts, RetryAttempt(fbConfig.providers[fbIdx], "null"))
    /\ controllers' = unlink(controllers, attemptController)
    /\ IF value # "undefined"
       THEN /\ timer' = FALSE
            /\ fbPc' = "returned"
            /\ fbOutcome' = [kind |-> "result", statusCode |-> 0,
                             attempts |-> attempts', result |-> value]
            /\ UNCHANGED fbIdx
       ELSE /\ fbPc' = "loop"
            /\ fbIdx' = fbIdx + 1
            /\ UNCHANGED <<timer, fbOutcome>>
    /\ UNCHANGED <<fbConfig, attempt, overallAborted, sleepLeft, attemptController,
                   execLog, exhausted>>
    /\ WrapperReports(TRUE)
    /\ UNCHANGED <<now, pipelineVars, bucketVars>>

\* executeFn rejects; `retryable` is isRetryableError(err)
ExecuteRejects(retryable) ==
    /\ fbPc = "executing"
    /\ attempts' = Append(attempts,
           RetryAttempt(fbConfig.providers[fbIdx],
                        IF retryable THEN "retryable" ELSE "fatal"))
    /\ IF overallAborted
       THEN /\ controllers' = unlink(controllers, attemptController)
            /\ fbPc' = "loop"
            /\ fbIdx' = fbIdx + 1
            /\ UNCHANGED <<exhausted, sleepLeft>>
       ELSE IF retryable
               /\ attempt < maxAttempts(fbConfig.streaming, fbConfig.maxRetries) - 1
            THEN /\ fbPc' = "sleeping"
                 /\ sleepLeft' = calculateBackoff(attempt, BaseBackoffSteps, MaxBackoffSteps)
                 /\ UNCHANGED <<controllers, fbIdx, exhausted>>
            ELSE /\ controllers' = unlink(controllers, attemptController)
                 /\ fbPc' = "loop"
                 /\ fbIdx' = fbIdx + 1
                 /\ exhausted' = exhausted \cup {fbIdx}
                 /\ UNCHANGED sleepLeft
    /\ UNCHANGED <<fbConfig, attempt, overallAborted, timer, attemptController,
                   execLog, fbOutcome>>
    /\ WrapperReports(FALSE)
    /\ UNCHANGED <<now, pipelineVars, bucketVars>>

\* `await sleep(backoff)`: a step of the backoff elapses.  sleep is given
\* the backoff alone, no signal, so nothing but time ends it
BackoffElapses ==
    /\ fbPc = "sleeping"
    /\ sleepLeft > 0
    /\ sleepLeft' = sleepLeft - 1
    /\ UNCHANGED <<fbConfig, fbPc, fbIdx, attempt, attempts, overallAborted, timer,
                   controllers, attemptController, execLog, exhausted, fbOutcome>>
    /\ UNCHANGED nonFallbackVars

\* `await sleep(backoff)` is over: continue, through `finally`
SleepEnds ==
    /\ fbPc = "sleeping"
    /\ sleepLeft = 0
    /\ controllers' = unlink(controllers, attemptController)
    /\ attempt' = attempt + 1
    /\ fbPc' = "tryProvider"
    /\ UNCHANGED <<fbConfig, fbIdx, attempts, overallAborted, timer, sleepLeft,
                   attemptController, execLog, exhausted, fbOutcome>>
    /\ UNCHANGED nonFallbackVars

\* the overall deadline trips: the timer callback runs while the call awaits
TimerFires ==
    /\ timer
    /\ fbPc \in {"executing", "sleeping"}
    /\ timer' = FALSE
    /\ overallAborted' = TRUE
    /\ controllers' = onOverallAbort(controllers)
    /\ UNCHANGED <<fbConfig, fbPc, fbIdx, attempt, attempts, sleepLeft,
                   attemptController, execLog, exhausted, fbOutcome>>
    /\ UNCHANGED nonFallbackVars

FallbackNext ==
    \/ Call
    \/ LoopHead
    \/ StartAttempt
    \/ \E value \in {"value", "undefined"} : ExecuteResolves(value)
    \/ \E retryable \in BOOLEAN : ExecuteRejects(retryable)
    \/ BackoffElapses
    \/ SleepEnds
    \/ TimerFires

----------------------------------------------------------------------------
(* middleware/error-handler.ts *)

\* mapStatus
mapStatus(status) ==
    IF status \in {400, 401, 403, 404, 429, 500, 502, 503, 504} THEN status
    ELSE IF status >= 400 /\ status < 500 THEN 400
    ELSE 500

\* errorHandler: the status of the response it builds for the Error err
errorHandler(err) ==
    IF err.kind = "APICallError"
    THEN mapStatus(IF err.statusCode = NULL THEN 500 ELSE err.statusCode)
    ELSE mapStatus(IF err.kind = "FallbackTimeoutError" THEN 504
                   ELSE IF err.statusCode # NULL THEN err.statusCode
                   ELSE 500)

\* mapStatusToErrorType
mapStatusToErrorType(status) ==
    IF status = 401 THEN "authentication_error"
    ELSE IF status = 403 THEN "permission_error"
    ELSE IF status = 404 THEN "not_found_error"
    ELSE IF status = 429 THEN "rate_limit_error"
    ELSE IF status >= 400 /\ status < 500 THEN "invalid_request_error"
    ELSE "api_error"

\* errorHandler: the error type in the body it builds for the Error err
errorTypeOf(err) ==
    IF err.kind = "APICallError"
    THEN mapStatusToErrorType(IF err.statusCode = NULL THEN 500 ELSE err.statusCode)
    ELSE "internal_error"

\* errorHandler: the error message in the body it builds for the Error err
errorMessageOf(err, env) ==
    IF err.kind = "APICallError" THEN err.message
    ELSE IF env = "development" THEN err.message
    ELSE "Internal server error"

----------------------------------------------------------------------------
(* services/error-tracker.ts, services/metrics.ts *)

ROLLING_WINDOW_SIZE == 100
ERROR_RATE_WINDOW_MS == 300000
ALERT_COOLDOWN_MS == 300000

\* the keys of providerStats: ProviderName | "unknown"
TrackedProviders == {"openai", "anthropic", "google", "unknown"}

\* providerStats has no entry for the provider
NoProviderStats ==
    [present |-> FALSE, totalErrors |-> 0, errors4xx |-> 0, errors5xx |-> 0,
     timeouts |-> 0, consecutiveFailures |-> 0, lastErrorAt |-> NULL,
     lastStatusCode |-> NULL]

\* the module as it is loaded
ErrorTrackerIdle ==
    [providerStats |-> [p \in TrackedProviders |-> NoProviderStats],
     recentErrors |-> << >>,
     totalErrors |-> 0,
     lastAlertAt |-> [k \in TrackedProviders \cup {"global"} |-> 0]]

\* pruneStaleErrors: the entries older than the window leave from the front
RECURSIVE pruneStaleErrors(_, _)
pruneStaleErrors(recentErrors, t) ==
    IF recentErrors # << >> /\ recentErrors[1].timestamp < t - ERROR_RATE_WINDOW_MS
    THEN pruneStaleErrors(Tail(recentErrors), t)
    ELSE recentErrors

\* ensureProviderStats
ensureProviderStats(stats) == [stats EXCEPT !.present = TRUE]

\* calculateErrorRate on the pruned window: the quotient windowErrors.length /
\* total as numerator and denominator; 0 when no request was counted.
\* provider "global" is the call without an argument
calculateErrorRate(recentErrors, provider, total) ==
    LET windowErrors == IF provider = "global" THEN recentErrors
                        ELSE SelectSeq(recentErrors, LAMBDA e : e.provider = provider)
    IN IF total = 0 THEN [num |-> 0, den |-> 1]
       ELSE [num |-> Len(windowErrors), den |-> total]

\* checkAlerts: lastAlertAt after it; ALERT_THRESHOLD is 0.5
checkAlerts(lastAlertAt, recentErrors, provider, t, total) ==
    LET fires(at, key) ==
            LET rate == calculateErrorRate(recentErrors, key, total)
            IN 2 * rate.num > rate.den /\ t - at[key] >= ALERT_COOLDOWN_MS
        afterProvider == IF fires(lastAlertAt, provider)
                         THEN [lastAlertAt EXCEPT ![provider] = t] ELSE lastAlertAt
    IN IF fires(afterProvider, "global")
       THEN [afterProvider EXCEPT !["global"] = t] ELSE afterProvider

\* trim to ROLLING_WINDOW_SIZE from the front
RECURSIVE capWindow(_)
capWindow(recentErrors) ==
    IF Len(recentErrors) > ROLLING_WINDOW_SIZE THEN capWindow(Tail(recentErrors))
    ELSE recentErrors

\* recordError: the module state after it
recordError(tracker, provider, statusCode, isTimeout, t, total) ==
    LET stats == ensureProviderStats(tracker.providerStats[provider])
        counted == [stats EXCEPT
                      !.totalErrors = @ + 1,
                      !.consecutiveFailures = @ + 1,
                      !.errors4xx = IF statusCode >= 400 /\ statusCode < 500
                                    THEN @ + 1 ELSE @,
                      !.errors5xx = IF statusCode >= 500 THEN @ + 1 ELSE @,
                      !.timeouts = IF isTimeout THEN @ + 1 ELSE @,
                      !.lastErrorAt = t,
                      !.lastStatusCode = statusCode]
        window == capWindow(Append(pruneStaleErrors(tracker.recentErrors, t),
                                   [provider |-> provider, statusCode |-> statusCode,
                                    isTimeout |-> isTimeout, timestamp |-> t]))
    IN [providerStats |-> [tracker.providerStats EXCEPT ![provider] = counted],
        recentErrors |-> window,
        totalErrors |-> tracker.totalErrors + 1,
        lastAlertAt |-> checkAlerts(tracker.lastAlertAt, window, provider, t, total)]

\* recordSuccess: the module state after it
recordSuccess(tracker, provider) ==
    [tracker EXCEPT !.providerStats[provider] =
        [ensureProviderStats(@) EXCEPT !.consecutiveFailures = 0]]

\* getProviderHealth: what it returns
getProviderHealth(tracker, provider, t, total) ==
    LET stats == tracker.providerStats[provider]
        errorRate == calculateErrorRate(pruneStaleErrors(tracker.recentErrors, t),
                                        provider, total)
    IN IF ~stats.present
       THEN [healthy |-> TRUE, errorRate |-> [num |-> 0, den |-> 1],
             consecutiveFailures |-> 0]
       ELSE [healthy |-> 2 * errorRate.num <= errorRate.den
                         /\ stats.consecutiveFailures < 5,
             errorRate |-> errorRate,
             consecutiveFailures |-> stats.consecutiveFailures]

\* getErrorSummary: the `global` part of what it returns
getErrorSummary(tracker, t, total) ==
    [totalErrors |-> tracker.totalErrors,
     errorRate |-> calculateErrorRate(pruneStaleErrors(tracker.recentErrors, t),
                                      "global", total)]

\* getProviderHealth and getErrorSummary prune as they read
readTracker(tracker, t) ==
    [tracker EXCEPT !.recentErrors = pruneStaleErrors(@, t)]

----------------------------------------------------------------------------
(* services/cost-tracker.ts *)

\* the module as it is loaded, at time 0
CostTrackerIdle ==
    [totalCostUsd |-> 0, totalInputTokens |-> 0, totalOutputTokens |-> 0,
     byProvider |-> [p \in {"openai", "anthropic", "google"} |->
                       [requests |-> 0, totalCost |-> 0, inputTokens |-> 0,
                        outputTokens |-> 0]],
     byModel |-> << >>,
     recentRequests |-> << >>,
     alertsFired |-> {},
     lastAlertResetAt |-> 0,
     \* history: the last recordCost call and whether it threw; the calls made
     lastCall |-> [modelId |-> "none", threw |-> FALSE],
     calls |-> 0]

MAX_RECENT_REQUESTS == 50
MAX_MODEL_ENTRIES == 100
ALERT_RESET_INTERVAL_MS == 86400000
\* COST_ALERT_TIERS_USD, in 1e-5 dollars
COST_ALERT_TIERS_USD == {1000000, 5000000, 10000000, 50000000}

\* config/pricing.ts getModelPricing: the price of the model in models.json,
\* DEFAULT_PRICING for a model that is not there; in 1e-5 dollars per 1K
\* tokens
getModelPricing(modelId) ==
    IF \E k \in DOMAIN MODEL_PRICING : MODEL_PRICING[k].modelId = modelId
    THEN MODEL_PRICING[CHOOSE k \in DOMAIN MODEL_PRICING :
                          MODEL_PRICING[k].modelId = modelId]
    ELSE [modelId |-> modelId, provider |-> "openai",
          inputPer1k |-> 200, outputPer1k |-> 600]

\* byModel is the sequence of its entries in the order Object.entries lists
\* them: the index of the entry of modelId, 0 when there is none
modelIndex(byModel, modelId) ==
    IF \E k \in DOMAIN byModel : byModel[k].key = modelId
    THEN CHOOSE k \in DOMAIN byModel : byModel[k].key = modelId
    ELSE 0

\* evictLeastUsedModel: the first entry with the fewest requests and, among
\* those, the lowest cost is deleted once the table has more than
\* MAX_MODEL_ENTRIES entries
evictLeastUsedModel(byModel) ==
    IF Len(byModel) <= MAX_MODEL_ENTRIES THEN byModel
    ELSE LET less(a, b) == \/ a.requests < b.requests
                           \/ a.requests = b.requests /\ a.totalCost < b.totalCost
             least == CHOOSE k \in DOMAIN byModel :
                         /\ \A j \in DOMAIN byModel : ~less(byModel[j], byModel[k])
                         /\ \A j \in 1..(k - 1) : less(byModel[k], byModel[j])
         IN SubSeq(byModel, 1, least - 1) \o SubSeq(byModel, least + 1, Len(byModel))

\* checkCostAlerts: the alert state after it
checkCostAlerts(tracker, t) ==
    LET reset == t - tracker.lastAlertResetAt >= ALERT_RESET_INTERVAL_MS
        fired == IF reset THEN {} ELSE tracker.alertsFired
    IN [tracker EXCEPT
          !.lastAlertResetAt = IF reset THEN t ELSE @,
          !.alertsFired = fired \cup {tier \in COST_ALERT_TIERS_USD :
                                         tracker.totalCostUsd >= tier}]

\* recordCost: the module state after it; tokens are given in thousands.
\* `byModel[modelId].requests++` throws a TypeError when the entry is gone,
\* and the statements after it do not run
recordCost(tracker, provider, modelId, inputTokens, outputTokens, t) ==
    LET pricing == getModelPricing(modelId)
        costUsd == inputTokens * pricing.inputPer1k + outputTokens * pricing.outputPer1k
        record == [provider |-> provider, modelId |-> modelId,
                   inputTokens |-> inputTokens, outputTokens |-> outputTokens,
                   costUsd |-> costUsd, timestamp |-> t]
        totals == [tracker EXCEPT
                     !.totalCostUsd = @ + costUsd,
                     !.totalInputTokens = @ + inputTokens,
                     !.totalOutputTokens = @ + outputTokens,
                     !.byProvider[provider] =
                         [requests |-> @.requests + 1,
                          totalCost |-> @.totalCost + costUsd,
                          inputTokens |-> @.inputTokens + inputTokens,
                          outputTokens |-> @.outputTokens + outputTokens],
                     !.lastCall = [modelId |-> modelId, threw |-> FALSE],
                     !.calls = @ + 1]
        table == IF modelIndex(tracker.byModel, modelId) = 0
                 THEN evictLeastUsedModel(
                          Append(tracker.byModel,
                                 [key |-> modelId, requests |-> 0, totalCost |-> 0]))
                 ELSE tracker.byModel
        at == modelIndex(table, modelId)
        pushed == Append(tracker.recentRequests, record)
    IN IF at = 0
       THEN [totals EXCEPT !.byModel = table, !.lastCall.threw = TRUE]
       ELSE checkCostAlerts(
                [totals EXCEPT
                   !.byModel = [table EXCEPT ![at] =
                                   [key |-> modelId, requests |-> @.requests + 1,
                                    totalCost |-> @.totalCost + costUsd]],
                   !.recentRequests = IF Len(pushed) > MAX_RECENT_REQUESTS
                                      THEN Tail(pushed) ELSE pushed],
                t)

\* no tracker has been called
TrackersIdle ==
    /\ errorTracker = ErrorTrackerIdle
    /\ totalRequests = 0
    /\ costTracker = CostTrackerIdle

----------------------------------------------------------------------------
(* middleware/auth.ts *)

\* the gateway key of the deployment (env.GATEWAY_API_KEY)
GATEWAY_API_KEY == "key-1"

\* no Authorization header
NoHeader == [scheme |-> "none", token |-> "none"]

\* the Authorization headers sent: none, another scheme, a Bearer header with
\* another key, the Bearer header with the gateway key
AuthHeaders ==
    { NoHeader,
      [scheme |-> "Basic ", token |-> "key-1"],
      [scheme |-> "Bearer ", token |-> "key-2"],
      [scheme |-> "Bearer ", token |-> "key-1"] }

\* an authMiddleware that lets any Bearer header through
authMiddlewareAnyBearer(authHeader) ==
    IF authHeader = NoHeader THEN 401
    ELSE IF authHeader.scheme # "Bearer " THEN 401
    ELSE 0

\* authMiddleware: the status it answers with, 0 when it calls next()
authMiddleware(authHeader) ==
    IF authHeader = NoHeader THEN 401
    ELSE IF authHeader.scheme # "Bearer " THEN 401
    ELSE IF authHeader.token # GATEWAY_API_KEY THEN 401
    ELSE 0

----------------------------------------------------------------------------
(* services/cache/semantic-cache.ts, services/cache/embeddings.ts *)

\* env.CACHE_SIMILARITY_THRESHOLD, a cosine distance in hundredths
similarityThreshold == 15

\* a model name is an atom here; the pieces it is spelled with: runs of
\* letters and digits, and single characters of any other kind
Spelling ==
    [m \in DOMAIN ModelPrefix |->
        CASE m = "gpt-4o" -> <<"gpt", "-", "4o">>
          [] m = "gpt-4o-mini" -> <<"gpt", "-", "4o", "-", "mini">>
          [] m = "gpt-4-turbo" -> <<"gpt", "-", "4", "-", "turbo">>
          [] m = "claude-sonnet-4-20250514" -> <<"claude", "-", "sonnet", "-", "4", "-", "20250514">>
          [] m = "claude-haiku-3-5" -> <<"claude", "-", "haiku", "-", "3", "-", "5">>
          [] m = "gemini-2.0-flash" -> <<"gemini", "-", "2", ".", "0", "-", "flash">>
          [] m = "gemini-2.0-pro" -> <<"gemini", "-", "2", ".", "0", "-", "pro">>
          [] m = "smart-model" -> <<"smart", "-", "model">>
          [] m = "fast-model" -> <<"fast", "-", "model">>
          [] m = "mistral-large" -> <<"mistral", "-", "large">>
          [] m = "gpt-4o*" -> <<"gpt", "-", "4o", "*">>
          [] m = "gpt-4o|gpt-4o-mini" ->
                <<"gpt", "-", "4o", "|", "gpt", "-", "4o", "-", "mini">>]

\* the pieces that are no run of letters and digits
Punctuation ==
    {"-", ".", "_", ":", "/", "{", "}", "|", "@", "*", "(", ")", "!", "~", "\\", "\"",
     "'", " "}

\* validateModelName: /^[a-zA-Z0-9][a-zA-Z0-9._:/-]*$/
validateModelName(model) ==
    LET s == Spelling[model]
    IN /\ s # << >>
       /\ s[1] \notin Punctuation
       /\ \A k \in DOMAIN s : s[k] \notin Punctuation \/ s[k] \in {".", "_", ":", "/", "-"}

\* escapeTag: a backslash before each of {}|@*()!~\"'.:-/ and white space
RECURSIVE escapeTag(_)
escapeTag(value) ==
    IF value = << >> THEN << >>
    ELSE IF value[1] \in {"{", "}", "|", "@", "*", "(", ")", "!", "~", "\\", "\"", "'",
                          ".", ":", "-", "/", " "}
         THEN <<"\\", value[1]>> \o escapeTag(Tail(value))
         ELSE <<value[1]>> \o escapeTag(Tail(value))

\* the TAG filter that matches any value at all
modelFilterAny(model) == <<"*">>

\* semanticSearch: what stands between the braces of `@model:{...}`
modelFilter(model) == escapeTag(Spelling[model])

\* the vector index on a TAG filter: the alternatives an unescaped | separates;
\* an unescaped * makes an alternative a prefix; a backslash makes the piece
\* after it literal
RECURSIVE TagAlternatives(_, _)
TagAlternatives(filter, current) ==
    IF filter = << >> THEN {current}
    ELSE IF filter[1] = "\\" /\ Len(filter) > 1
         THEN TagAlternatives(SubSeq(filter, 3, Len(filter)),
                              [current EXCEPT !.literal = Append(@, filter[2])])
    ELSE IF filter[1] = "|"
         THEN {current} \cup TagAlternatives(Tail(filter),
                                             [literal |-> << >>, prefix |-> FALSE])
    ELSE IF filter[1] = "*"
         THEN TagAlternatives(Tail(filter), [current EXCEPT !.prefix = TRUE])
    ELSE TagAlternatives(Tail(filter), [current EXCEPT !.literal = Append(@, filter[1])])

\* the vector index: the TAG value of a document satisfies the filter
tagMatches(filter, value) ==
    \E alternative \in TagAlternatives(filter, [literal |-> << >>, prefix |-> FALSE]) :
       IF alternative.prefix
       THEN /\ Len(alternative.literal) <= Len(value)
            /\ SubSeq(value, 1, Len(alternative.literal)) = alternative.literal
       ELSE alternative.literal = value

\* normalizeMessages and generateEmbedding, then the cosine distance of two
\* embeddings, in hundredths: the same text is at distance 0, the prompts
\* sent here are far from each other
cosineDistance(queryText, storedText) == IF queryText = storedText THEN 0 ELSE 40

\* the response bodies: chat.completion objects
NoBody ==
    [id |-> "none", created |-> 0, model |-> "none", content |-> "", finishReason |-> "none"]

\* semanticSearch found nothing to return
CacheMiss == [hit |-> FALSE, throws |-> FALSE, model |-> "none", response |-> ""]

\* what can go wrong in a cache call: the Redis client is closed,
\* generateEmbedding rejects, the Redis command rejects, getRedisClient throws
CacheFaults == {"none", "closed", "embedding", "redis", "client"}

\* semanticSearch(messages, model) on the documents of the index: the results
\* it can return (KNN 1 returns one of the nearest documents the filter lets
\* through)
semanticSearch(docs, queryText, model, fault) ==
    IF ~validateModelName(model) THEN {CacheMiss}
    ELSE IF fault = "client" THEN {[CacheMiss EXCEPT !.throws = TRUE]}
    ELSE IF fault # "none" THEN {CacheMiss}
    ELSE LET scoped == {d \in docs : tagMatches(modelFilter(model), Spelling[d.model])}
             nearest == {d \in scoped : \A e \in scoped :
                            cosineDistance(queryText, d.query)
                               <= cosineDistance(queryText, e.query)}
         IN IF scoped = {} THEN {CacheMiss}
            ELSE { IF cosineDistance(queryText, d.query) < similarityThreshold
                   THEN [hit |-> TRUE, throws |-> FALSE, model |-> d.model,
                         response |-> d.response]
                   ELSE CacheMiss : d \in nearest }

\* cacheResponse: the document json.set writes.  The fields after `response`
\* are history: the parameters of the request whose response it is, what the
\* cache middleware made of that request, and the body it was answered with
cacheEntry(req) ==
    [query |-> req.prompt, model |-> req.model, response |-> req.body.content,
     temperature |-> req.temperature, maxTokens |-> req.maxTokens,
     stream |-> req.stream, skipCache |-> req.skipCache, xCache |-> req.xCache,
     status |-> req.status, body |-> req.body]

----------------------------------------------------------------------------
(* The middleware chain of index.ts on POST /v1/chat/completions, one      *)
(* action per stretch of a middleware between two awaits                   *)

NoRequest ==
    [pc |-> "idle", model |-> "none", stream |-> FALSE, authHeader |-> NoHeader,
     entered |-> << >>, left |-> << >>,
     limited |-> "none", tokensSeen |-> 0, retryAfter |-> NULL,
     limitHeader |-> NULL, remainingHeader |-> NULL,
     deadline |-> "none", timeoutHeader |-> << >>, timeoutMs |-> NULL,
     selected |-> "none", selectedModel |-> "none",
     ranked |-> {}, startTime |-> 0, tried |-> {},
     prompt |-> "What is 2+2?", temperature |-> 7, maxTokens |-> 256,
     skipCache |-> FALSE, xCache |-> "none", looked |-> FALSE, lookupFailed |-> FALSE,
     body |-> NoBody,
     upstream |-> "none", upstreamOpen |-> FALSE, upstreamFailed |-> FALSE,
     upstreamState |-> "none", cancelledBy |-> "none",
     status |-> 0, errorType |-> "none", message |-> "", threw |-> FALSE, rejecting |-> FALSE,
     reports |-> 0, reported |-> "none"]

\* the circuit of p is open and its cooldown has not elapsed at time t
InCooldown(entry, t) ==
    /\ entry.circuitOpenedAt # NULL
    /\ (t - entry.circuitOpenedAt) < CIRCUIT_BREAKER_COOLDOWN_MS

\* the request is over: the locals of its handlers are gone
Done(req) == [req EXCEPT !.pc = "done", !.startTime = 0, !.looked = FALSE]

\* the middleware `stage` is entered
Enter(req, stage) == [req EXCEPT !.entered = Append(@, stage)]

\* a middleware answers without calling next()
Answer(req, status, errorType) ==
    [req EXCEPT !.status = status, !.errorType = errorType]

\* the variables the actions of the chain leave alone: the configuration of
\* the deployment, which no middleware writes, and the trackers, whose calls
\* are taken in any order by TrackerSpec and CostSpec
configVars == <<apiKeys, capabilities, rateLimitEnabled, cacheEnabled, nodeEnv, trackerVars>>

\* SIGTERM or SIGINT: shutdown() sets isShuttingDown
Shutdown ==
    /\ ~isShuttingDown
    /\ isShuttingDown' = TRUE
    /\ UNCHANGED <<now, cache, stores, requests, buckets, acquireLog>>
    /\ UNCHANGED configVars
    /\ UNCHANGED registryVars
    /\ UNCHANGED fallbackVars

\* the drain middleware, registered first: a request with this body arrives
DrainGate(r, model, stream) ==
    /\ requests[r].pc = "idle"
    /\ LET arrived == Enter([requests[r] EXCEPT !.model = model, !.stream = stream],
                            "gate")
       IN requests' = [requests EXCEPT ![r] =
             IF isShuttingDown
             THEN Done(Answer(arrived, 503, "server_error"))
             ELSE [arrived EXCEPT !.pc = "tracing"]]
    /\ UNCHANGED <<now, cache, stores, buckets, acquireLog, isShuttingDown>>
    /\ UNCHANGED configVars
    /\ UNCHANGED registryVars
    /\ UNCHANGED fallbackVars

\* tracingMiddleware up to next(): the root span is started
Tracing(r) ==
    /\ requests[r].pc = "tracing"
    /\ requests' = [requests EXCEPT ![r] =
          [Enter(requests[r], "tracing") EXCEPT !.pc = "logger"]]
    /\ UNCHANGED <<now, cache, stores, buckets, acquireLog, isShuttingDown>>
    /\ UNCHANGED configVars
    /\ UNCHANGED registryVars
    /\ UNCHANGED fallbackVars

\* requestLogger up to next(): the request is logged
RequestLogger(r) ==
    /\ requests[r].pc = "logger"
    /\ requests' = [requests EXCEPT ![r] =
          [Enter(requests[r], "logger") EXCEPT !.pc = "auth"]]
    /\ UNCHANGED <<now, cache, stores, buckets, acquireLog, isShuttingDown>>
    /\ UNCHANGED configVars
    /\ UNCHANGED registryVars
    /\ UNCHANGED fallbackVars

\* authMiddleware on the Authorization header the request carries
Auth(r, authHeader) ==
    /\ requests[r].pc = "auth"
    /\ LET req == Enter([requests[r] EXCEPT !.authHeader = authHeader], "auth")
           status == authMiddleware(authHeader)
       IN requests' = [requests EXCEPT ![r] =
             IF status # 0
             THEN [Answer(req, status, "authentication_error") EXCEPT !.pc = "unwind"]
             ELSE [req EXCEPT !.pc = "bodyLimit"]]
    /\ UNCHANGED <<now, cache, stores, buckets, acquireLog, isShuttingDown>>
    /\ UNCHANGED configVars
    /\ UNCHANGED registryVars
    /\ UNCHANGED fallbackVars

\* bodyLimit: 413 for a body of more than 1MB
BodyLimit(r, tooLarge) ==
    /\ requests[r].pc = "bodyLimit"
    /\ LET req == Enter(requests[r], "bodyLimit")
       IN requests' = [requests EXCEPT ![r] =
             IF tooLarge
             THEN [Answer(req, 413, "invalid_request_error") EXCEPT !.pc = "unwind"]
             ELSE [req EXCEPT !.pc = "rateLimit"]]
    /\ UNCHANGED <<now, cache, stores, buckets, acquireLog, isShuttingDown>>
    /\ UNCHANGED configVars
    /\ UNCHANGED registryVars
    /\ UNCHANGED fallbackVars

\* the middleware `stage` returns
Leave(req, stage) == [req EXCEPT !.left = Append(@, stage)]

\* every middleware entered and not yet left returns, the innermost first
LeaveAll(req) ==
    LET n == Len(req.entered) - Len(req.left)
    IN [req EXCEPT !.left = @ \o [k \in 1..n |-> req.entered[n + 1 - k]]]

\* getBucket: the bucket of the provider, created full on first use
getBucket(bkts, provider, t) ==
    IF bkts[provider] = NoBucket
    THEN TokenBucket(RATE_LIMIT_MAX_TOKENS, RATE_LIMIT_REFILL_RATE, t)
    ELSE bkts[provider]

\* rateLimiter on the bucket: tryAcquire when Date.now() reads t1, then
\* getRetryAfter or getRemaining when it reads t2
bucketCheck(bucket, t1, t2) ==
    LET acquired == tryAcquire(bucket, t1)
    IN IF ~acquired.result
       THEN [allowed |-> FALSE,
             bucket |-> getRetryAfter(acquired.bucket, t2).bucket,
             retryAfter |-> getRetryAfter(acquired.bucket, t2).result,
             remaining |-> 0,
             tokensSeen |-> refill(bucket, t1).tokens]
       ELSE [allowed |-> TRUE,
             bucket |-> getRemaining(acquired.bucket, t2).bucket,
             retryAfter |-> NULL,
             remaining |-> getRemaining(acquired.bucket, t2).result,
             tokensSeen |-> refill(bucket, t1).tokens]

\* rateLimiter; the clock advances by `skew` between the two readings the
\* bucket makes of it
RateLimiter(r, skew) ==
    /\ requests[r].pc = "rateLimit"
    /\ LET req == Enter(requests[r], "rateLimit")
           provider == IF req.model = "none" THEN "null" ELSE detectProvider(req.model)
       IN IF ~rateLimitEnabled
          THEN /\ requests' = [requests EXCEPT ![r] = [req EXCEPT !.pc = "timeout"]]
               /\ UNCHANGED <<now, buckets>>
          ELSE IF provider = "null"
          THEN /\ requests' = [requests EXCEPT ![r] =
                     [Answer(req, 400, "invalid_request_error") EXCEPT !.pc = "unwind"]]
               /\ UNCHANGED <<now, buckets>>
          ELSE \E check \in {bucketCheck(getBucket(buckets, provider, now), now, now + skew)} :
                 /\ buckets' = [buckets EXCEPT ![provider] = check.bucket]
                 /\ now' = now + skew
                 /\ requests' = [requests EXCEPT ![r] =
                       LET seen == [req EXCEPT
                                      !.limited = IF check.allowed THEN "allowed" ELSE "denied",
                                      !.tokensSeen = check.tokensSeen,
                                      !.retryAfter = check.retryAfter,
                                      !.limitHeader = check.bucket.maxTokens,
                                      !.remainingHeader = check.remaining]
                       IN IF check.allowed
                          THEN [seen EXCEPT !.pc = "timeout"]
                          ELSE [Answer(seen, 429, "rate_limit_error") EXCEPT !.pc = "unwind"]]
    /\ UNCHANGED <<cache, stores, acquireLog, isShuttingDown>>
    /\ UNCHANGED configVars
    /\ UNCHANGED registryVars
    /\ UNCHANGED fallbackVars

\* middleware/timeout.ts: the bounds an X-Timeout-Ms header is clamped to
MAX_TIMEOUT_MS == 120000
MIN_TIMEOUT_MS == 1000
\* index.ts: timeoutMiddleware(30_000)
DefaultTimeoutMs == 30000
\* config/env.ts: the defaults of TIMEOUT_OPENAI_MS, TIMEOUT_ANTHROPIC_MS and
\* TIMEOUT_GOOGLE_MS
TIMEOUT_OPENAI_MS == 30000
TIMEOUT_ANTHROPIC_MS == 60000
TIMEOUT_GOOGLE_MS == 30000

\* buildPerProviderTimeouts
buildPerProviderTimeouts ==
    [openai |-> TIMEOUT_OPENAI_MS,
     anthropic |-> TIMEOUT_ANTHROPIC_MS,
     google |-> TIMEOUT_GOOGLE_MS]

\* a header value is the sequence of the pieces it is spelled with: runs of
\* decimal digits, a sign, a point, letters.  No header, like an empty one,
\* is the empty sequence
NoTimeoutHeader == << >>
\* the number a run of decimal digits spells
DecimalValue ==
    [digits \in {"0", "12", "500", "1000", "5000", "120000", "120001", "200000"} |->
        CASE digits = "0" -> 0
          [] digits = "12" -> 12
          [] digits = "500" -> 500
          [] digits = "1000" -> 1000
          [] digits = "5000" -> 5000
          [] digits = "120000" -> 120000
          [] digits = "120001" -> 120001
          [] digits = "200000" -> 200000]
\* Number.NaN
NaN == 0 - INFINITY

\* Number.parseInt(text, 10): an optional sign and the leading run of digits,
\* whatever follows it; NaN when there is no such run
parseInt(text) ==
    IF text = << >> THEN NaN
    ELSE IF text[1] \in DOMAIN DecimalValue THEN DecimalValue[text[1]]
    ELSE IF text[1] \in {"-", "+"} /\ Len(text) > 1 /\ text[2] \in DOMAIN DecimalValue
         THEN IF text[1] = "-" THEN 0 - DecimalValue[text[2]] ELSE DecimalValue[text[2]]
    ELSE NaN

\* the clamp of a parsed header value: no clamp at all
clampTimeoutUnbounded(parsed) == parsed

\* Math.max(MIN_TIMEOUT_MS, Math.min(parsed, MAX_TIMEOUT_MS))
clampTimeout(parsed) ==
    LET capped == IF parsed < MAX_TIMEOUT_MS THEN parsed ELSE MAX_TIMEOUT_MS
    IN IF capped > MIN_TIMEOUT_MS THEN capped ELSE MIN_TIMEOUT_MS

\* timeoutMiddleware: the effective timeout of a request for `model` ("none":
\* the body is not JSON or names no model) that carries the header
effectiveTimeout(model, headerTimeout, defaultMs) ==
    LET provider == IF model = "none" THEN "null" ELSE detectProvider(model)
        configured == IF provider # "null" THEN buildPerProviderTimeouts[provider]
                      ELSE defaultMs
        parsed == parseInt(headerTimeout)
    IN IF headerTimeout # NoTimeoutHeader /\ parsed # NaN /\ parsed > 0
       THEN clampTimeout(parsed)
       ELSE configured

\* timeoutMiddleware up to next(): the effective timeout is resolved, the
\* abort signal is put in the context and the timer of the deadline is set
Timeout(r, headerTimeout) ==
    /\ requests[r].pc = "timeout"
    /\ requests' = [requests EXCEPT ![r] =
          [Enter(requests[r], "timeout") EXCEPT
              !.pc = "router",
              !.deadline = "armed",
              !.timeoutHeader = headerTimeout,
              !.timeoutMs = effectiveTimeout(requests[r].model, headerTimeout,
                                             DefaultTimeoutMs)]]
    /\ UNCHANGED <<now, cache, stores, buckets, acquireLog, isShuttingDown>>
    /\ UNCHANGED configVars
    /\ UNCHANGED registryVars
    /\ UNCHANGED fallbackVars

\* the timer of timeoutMiddleware fires while the chain below it awaits:
\* controller.abort(new TimeoutError(...)).  Nothing listens to the signal
DeadlineTrips(r) ==
    /\ requests[r].deadline = "armed"
    /\ requests[r].pc \in {"handler", "upstream"}
    /\ requests' = [requests EXCEPT ![r] = [requests[r] EXCEPT !.deadline = "tripped"]]
    /\ UNCHANGED <<now, cache, stores, buckets, acquireLog, isShuttingDown>>
    /\ UNCHANGED configVars
    /\ UNCHANGED registryVars
    /\ UNCHANGED fallbackVars

\* smartRouter up to `await next()`.  model "none" is a body that is not
\* JSON or carries no model: the router steps aside.  hints is what
\* parseRoutingHints reads from the headers
SmartRouter(r, hints) ==
    /\ requests[r].pc = "router"
    /\ LET arrived == Enter(requests[r], "smartRouter")
           request == [model |-> arrived.model, stream |-> arrived.stream, hints |-> hints]
       IN IF arrived.model = "none"
          THEN /\ requests' = [requests EXCEPT ![r] = [arrived EXCEPT !.pc = "cache"]]
               /\ UNCHANGED registryVars
          ELSE /\ DoRead(DOMAIN providers)
               /\ \E selected \in {selectProvider(providers, latency, now, request,
                                                  capabilities)} :
                     requests' = [requests EXCEPT ![r] =
                        IF selected.throws
                        THEN [Leave(Answer(arrived, 503, "server_error"), "smartRouter")
                                EXCEPT !.pc = "timeoutPost"]
                        ELSE [arrived EXCEPT
                                !.pc = "cache",
                                !.selected = selected.provider,
                                !.selectedModel = selected.modelId,
                                !.ranked = {selected.available[k].provider :
                                               k \in DOMAIN selected.available},
                                !.startTime = now]]
    /\ UNCHANGED <<now, cache, stores, buckets, acquireLog, isShuttingDown>>
    /\ UNCHANGED configVars
    /\ UNCHANGED fallbackVars

\* crypto.randomUUID() and generateId(): the ids a response can be given
ResponseIds == {"chatcmpl-1", "chatcmpl-2"}

\* the X-Skip-Cache header is not looked at
cacheAppliesDespiteSkip(enabled, skipCache, req) ==
    /\ enabled
    /\ req.model # "none"
    /\ ~req.stream

\* semanticCacheMiddleware: the request is looked up in the cache.  Not when
\* the cache is disabled, X-Skip-Cache is "true", the body is not JSON
\* (model "none") or it asks for a stream
cacheApplies(enabled, skipCache, req) ==
    /\ enabled
    /\ ~skipCache
    /\ req.model # "none"
    /\ ~req.stream

\* semanticCacheMiddleware: the X-Cache header of a request it lets through
\* without a lookup
bypassHeader(enabled, skipCache, req) ==
    IF ~enabled THEN "DISABLED"
    ELSE IF skipCache THEN "SKIP"
    ELSE IF req.model = "none" THEN "none"
    ELSE "MISS"

\* semanticCacheMiddleware after a lookup that found nothing: X-Cache is
\* MISS and next() is called
afterLookupMiss(req) == [req EXCEPT !.xCache = "MISS", !.pc = "validate"]

\* the lookup threw and the error is thrown on to the middlewares above
afterLookupErrorThrown(req) ==
    [Leave(req, "cache") EXCEPT !.threw = TRUE, !.rejecting = TRUE, !.pc = "post"]

\* semanticCacheMiddleware after a lookup that threw: the catch block logs
\* the error and the request goes on as after a miss
afterLookupError(req) == afterLookupMiss(req)

\* semanticCacheMiddleware: the chat.completion it answers a hit with
cachedResponse(result, id, t) ==
    [id |-> id, created |-> t \div 1000, model |-> result.model,
     content |-> result.response, finishReason |-> "stop"]

\* semanticCacheMiddleware up to `await next()`, or to the cached response;
\* skipCache is the X-Skip-Cache header, fault what goes wrong in the lookup,
\* id what crypto.randomUUID() gives for a hit
SemanticCache(r, skipCache, fault, id) ==
    /\ requests[r].pc = "cache"
    /\ LET req == Enter([requests[r] EXCEPT !.skipCache = skipCache], "cache")
           consulted == [req EXCEPT !.looked = TRUE, !.lookupFailed = (fault # "none")]
       IN IF ~cacheApplies(cacheEnabled, skipCache, req)
          THEN requests' = [requests EXCEPT ![r] =
                  [req EXCEPT !.pc = "validate",
                              !.xCache = bypassHeader(cacheEnabled, skipCache, req)]]
          ELSE \E result \in semanticSearch(cache, req.prompt, req.model, fault) :
                  IF result.throws
                  THEN requests' = [requests EXCEPT ![r] = afterLookupError(consulted)]
                  ELSE IF ~result.hit \/ result.response = ""
                  THEN requests' = [requests EXCEPT ![r] = afterLookupMiss(consulted)]
                  ELSE requests' = [requests EXCEPT ![r] =
                          [Leave(Answer(consulted, 200, "none"), "cache") EXCEPT
                              !.pc = "post",
                              !.xCache = "HIT",
                              !.body = cachedResponse(result, id, now)]]
    /\ UNCHANGED <<now, cache, stores, buckets, acquireLog, isShuttingDown>>
    /\ UNCHANGED configVars
    /\ UNCHANGED registryVars
    /\ UNCHANGED fallbackVars

\* zValidator of the chat route: 400 for a body that does not match
\* ChatCompletionRequestSchema (a body without a model never does)
Validator(r, valid) ==
    /\ requests[r].pc = "validate"
    /\ LET req == Enter(requests[r], "validate")
       IN requests' = [requests EXCEPT ![r] =
             IF req.model = "none" \/ ~valid
             THEN [Leave(Answer(req, 400, "invalid_request_error"), "validate")
                     EXCEPT !.pc = "cacheStore"]
             ELSE [req EXCEPT !.pc = "handler"]]
    /\ UNCHANGED <<now, cache, stores, buckets, acquireLog, isShuttingDown>>
    /\ UNCHANGED configVars
    /\ UNCHANGED registryVars
    /\ UNCHANGED fallbackVars

\* the chat handler and the validator before it return
HandlerReturns(req) == Leave(Leave(req, "handler"), "validate")

\* the chat handler up to `await generateText(...)`, which is given no abort
\* signal; for a stream, up to the Response streamSSE returns while
\* streamText runs under the handler's own AbortController and streamTimer
ChatHandler(r) ==
    /\ requests[r].pc = "handler"
    /\ LET req == Enter(requests[r], "handler")
           route == routeModel(req.model, apiKeys)
           called == [req EXCEPT
                        !.upstream = route.provider,
                        !.tried = @ \cup {route.provider},
                        !.upstreamOpen = InCooldown(providers[route.provider], now),
                        !.upstreamState = "inflight"]
           generic == [kind |-> "Error", statusCode |-> NULL,
                       message |-> "No API key configured"]
       IN requests' = [requests EXCEPT ![r] =
             IF route.throws
             THEN [HandlerReturns(Answer(req, errorHandler(generic), errorTypeOf(generic)))
                     EXCEPT !.pc = "cacheStore",
                            !.message = errorMessageOf(generic, nodeEnv)]
             ELSE IF req.stream
                  THEN [HandlerReturns(Answer(called, 200, "none"))
                          EXCEPT !.pc = "cacheStore"]
                  ELSE [called EXCEPT !.pc = "upstream"]]
    /\ UNCHANGED <<now, cache, stores, buckets, acquireLog, isShuttingDown>>
    /\ UNCHANGED configVars
    /\ UNCHANGED registryVars
    /\ UNCHANGED fallbackVars

\* what generateText can reject with: an APICallError with the upstream
\* status, or another Error (network)
UpstreamErrors ==
    { [kind |-> "APICallError", statusCode |-> 503, message |-> "Service Unavailable"],
      [kind |-> "APICallError", statusCode |-> 429, message |-> "Service Unavailable"],
      [kind |-> "Error", statusCode |-> NULL, message |-> "Service Unavailable"] }

\* result.text of generateText
Completions == {"4"}

\* generateText resolves: the handler answers 200 with a chat.completion of
\* its own id
UpstreamResolves(r, id, text) ==
    /\ requests[r].pc = "upstream"
    /\ requests' = [requests EXCEPT ![r] =
          [HandlerReturns(Answer(requests[r], 200, "none"))
             EXCEPT !.pc = "cacheStore",
                    !.upstreamState = "settled",
                    !.body = [id |-> id, created |-> now \div 1000,
                              model |-> routeModel(requests[r].model, apiKeys).modelId,
                              content |-> text, finishReason |-> "stop"]]]
    /\ UNCHANGED <<now, cache, stores, buckets, acquireLog, isShuttingDown>>
    /\ UNCHANGED configVars
    /\ UNCHANGED registryVars
    /\ UNCHANGED fallbackVars

\* generateText rejects with err and the handler rethrows it: app.onError
\* (errorHandler) answers for it
UpstreamRejects(r, err) ==
    /\ requests[r].pc = "upstream"
    /\ requests' = [requests EXCEPT ![r] =
          [HandlerReturns(Answer(requests[r], errorHandler(err), errorTypeOf(err)))
             EXCEPT !.pc = "cacheStore",
                    !.message = errorMessageOf(err, nodeEnv),
                    !.upstreamFailed = TRUE,
                    !.upstreamState = "settled"]]
    /\ UNCHANGED <<now, cache, stores, buckets, acquireLog, isShuttingDown>>
    /\ UNCHANGED configVars
    /\ UNCHANGED registryVars
    /\ UNCHANGED fallbackVars

\* the handler's promise rejects with something no error handler answers
\* for: `await next()` rejects in every middleware above
NextRejects(r) ==
    /\ requests[r].pc = "upstream"
    /\ requests' = [requests EXCEPT ![r] =
          [HandlerReturns(requests[r])
             EXCEPT !.pc = "cacheStore",
                    !.upstreamFailed = TRUE,
                    !.upstreamState = "settled",
                    !.threw = TRUE,
                    !.rejecting = TRUE]]
    /\ UNCHANGED <<now, cache, stores, buckets, acquireLog, isShuttingDown>>
    /\ UNCHANGED configVars
    /\ UNCHANGED registryVars
    /\ UNCHANGED fallbackVars

\* the stream of a streaming request comes to its end
StreamEnds(r) ==
    /\ requests[r].stream
    /\ requests[r].upstreamState = "inflight"
    /\ requests' = [requests EXCEPT ![r] = [requests[r] EXCEPT !.upstreamState = "settled"]]
    /\ UNCHANGED <<now, cache, stores, buckets, acquireLog, isShuttingDown>>
    /\ UNCHANGED configVars
    /\ UNCHANGED registryVars
    /\ UNCHANGED fallbackVars

\* streamTimer of the chat handler fires (env.ROUTING_TIMEOUT_MS after the
\* handler ran): its own abortController aborts streamText
StreamTimerFires(r) ==
    /\ requests[r].stream
    /\ requests[r].upstreamState = "inflight"
    /\ requests' = [requests EXCEPT ![r] =
          [requests[r] EXCEPT !.upstreamState = "cancelled",
                              !.cancelledBy = "streamTimer"]]
    /\ UNCHANGED <<now, cache, stores, buckets, acquireLog, isShuttingDown>>
    /\ UNCHANGED configVars
    /\ UNCHANGED registryVars
    /\ UNCHANGED fallbackVars

\* semanticCacheMiddleware after `await next()`: cacheResponse is called,
\* and not awaited, for a 200 whose first choice has a text.  Only a request
\* that was looked up comes here: the others returned with next()
CacheStore(r) ==
    /\ requests[r].pc = "cacheStore"
    /\ stores' = IF /\ ~requests[r].threw
                    /\ requests[r].looked
                    /\ requests[r].status = 200
                    /\ requests[r].body.content # ""
                 THEN stores \cup {cacheEntry(requests[r])}
                 ELSE stores
    /\ requests' = [requests EXCEPT ![r] = [Leave(requests[r], "cache") EXCEPT !.pc = "post"]]
    /\ UNCHANGED <<now, cache, buckets, acquireLog, isShuttingDown>>
    /\ UNCHANGED configVars
    /\ UNCHANGED registryVars
    /\ UNCHANGED fallbackVars

\* cacheResponse: the documents of the index after the call
cacheResponse(docs, entry, fault) ==
    IF validateModelName(entry.model) /\ fault = "none"
    THEN docs \cup {entry}
    ELSE docs

\* a cacheResponse call comes to its end, whatever became of the request:
\* the document is written, or what went wrong is logged
StoreSettles(entry, fault) ==
    /\ entry \in stores
    /\ stores' = stores \ {entry}
    /\ cache' = cacheResponse(cache, entry, fault)
    /\ UNCHANGED <<now, requests, buckets, acquireLog, isShuttingDown>>
    /\ UNCHANGED configVars
    /\ UNCHANGED registryVars
    /\ UNCHANGED fallbackVars

\* smartRouter after `await next()`: the outcome it records; nothing when
\* the await rejected (the statement is in no try block)
SmartRouterPost(r) ==
    /\ requests[r].pc = "post"
    /\ LET req == [Leave(requests[r], "smartRouter") EXCEPT
                      !.pc = "timeoutPost", !.startTime = 0, !.looked = FALSE]
       IN IF req.threw \/ req.selected = "none"
          THEN /\ requests' = [requests EXCEPT ![r] = req]
               /\ UNCHANGED registryVars
          ELSE IF req.status >= 200 /\ req.status < 400
               THEN /\ DoReportSuccess(req.selected, now - requests[r].startTime)
                    /\ requests' = [requests EXCEPT ![r] =
                          [req EXCEPT !.reports = @ + 1, !.reported = "success"]]
               ELSE /\ DoReportError(req.selected)
                    /\ requests' = [requests EXCEPT ![r] =
                          [req EXCEPT !.reports = @ + 1, !.reported = "error"]]
    /\ UNCHANGED <<now, cache, stores, buckets, acquireLog, isShuttingDown>>
    /\ UNCHANGED configVars
    /\ UNCHANGED fallbackVars

\* timeoutMiddleware after `await next()`: 408 when next() rejected and the
\* signal is aborted, the error thrown on otherwise; in `finally` the timer
\* is cleared
TimeoutPost(r) ==
    /\ requests[r].pc = "timeoutPost"
    /\ LET req == [Leave(requests[r], "timeout") EXCEPT
                      !.pc = "unwind",
                      !.deadline = IF @ = "armed" THEN "cleared" ELSE @]
       IN requests' = [requests EXCEPT ![r] =
             IF req.rejecting /\ requests[r].deadline = "tripped"
             THEN [Answer(req, 408, "timeout_error") EXCEPT !.rejecting = FALSE]
             ELSE req]
    /\ UNCHANGED <<now, cache, stores, buckets, acquireLog, isShuttingDown>>
    /\ UNCHANGED configVars
    /\ UNCHANGED registryVars
    /\ UNCHANGED fallbackVars

\* the response has gone out: the context of the request is dropped
Retire(r) ==
    /\ requests[r].pc = "done"
    /\ requests' = [requests EXCEPT ![r] = [NoRequest EXCEPT !.pc = "retired"]]
    /\ UNCHANGED <<now, cache, stores, buckets, acquireLog, isShuttingDown>>
    /\ UNCHANGED configVars
    /\ UNCHANGED registryVars
    /\ UNCHANGED fallbackVars

\* the middlewares above return (requestLogger logs the response,
\* tracingMiddleware ends the span) and the response goes out; a rejection
\* nothing answered for leaves the server to answer 500
Respond(r) ==
    /\ requests[r].pc = "unwind"
    /\ requests' = [requests EXCEPT ![r] =
          IF requests[r].rejecting
          THEN Done(Answer(LeaveAll(requests[r]), 500, "none"))
          ELSE Done(LeaveAll(requests[r]))]
    /\ UNCHANGED <<now, cache, stores, buckets, acquireLog, isShuttingDown>>
    /\ UNCHANGED configVars
    /\ UNCHANGED registryVars
    /\ UNCHANGED fallbackVars

----------------------------------------------------------------------------
(* The registry driven directly by its callers *)

\* new ProviderRegistry(providerIds)
RegistryIds == {"openai"}
\* latencyMs values handed to reportSuccess
RegistryLatencies == {120}
\* values handed to updateRateLimit
RateLimitRemainings == {0}
RateLimitResets == {TickMs}

\* no request is in the chain
PipelineIdle ==
    /\ apiKeys = {}
    /\ capabilities = << >>
    /\ cache = {}
    /\ stores = {}
    /\ cacheEnabled = TRUE
    /\ nodeEnv = "production"
    /\ TrackersIdle
    /\ requests = << >>
    /\ rateLimitEnabled = TRUE
    /\ isShuttingDown = FALSE

\* no bucket has been created
BucketsIdle ==
    /\ buckets = [id \in AllProviders |-> NoBucket]
    /\ acquireLog = << >>

RegistryInit ==
    /\ now = 0
    /\ providers = [id \in RegistryIds |-> NewEntry]
    /\ latency = [id \in RegistryIds |-> NoLatencyState]
    /\ lastRead = [id \in RegistryIds |-> NoRead]
    /\ openedAtEver = [id \in RegistryIds |-> NULL]
    /\ halfOpen = [id \in RegistryIds |-> FALSE]
    /\ probeAdmits = [id \in RegistryIds |-> 0]
    /\ FallbackIdle
    /\ PipelineIdle
    /\ BucketsIdle

Tick ==
    /\ now < MaxTime
    /\ now' = now + TickMs
    /\ UNCHANGED registryVars
    /\ UNCHANGED nonRegistryVars

IsAvailable(p) ==
    /\ DoRead({p})
    /\ UNCHANGED now
    /\ UNCHANGED nonRegistryVars

GetProviderStates ==
    /\ DoRead(DOMAIN providers)
    /\ UNCHANGED now
    /\ UNCHANGED nonRegistryVars

ReportSuccess(p, latencyMs) ==
    /\ DoReportSuccess(p, latencyMs)
    /\ UNCHANGED now
    /\ UNCHANGED nonRegistryVars

ReportError(p) ==
    /\ providers[p].consecutiveErrors < MaxErrors
    /\ DoReportError(p)
    /\ UNCHANGED now
    /\ UNCHANGED nonRegistryVars

UpdateRateLimit(p, remaining, resetAt) ==
    /\ providers' = [providers EXCEPT ![p] = updateRateLimitEntry(@, remaining, resetAt)]
    /\ UNCHANGED <<now, latency, lastRead, openedAtEver, halfOpen, probeAdmits>>
    /\ UNCHANGED nonRegistryVars

RegistryNext ==
    \/ Tick
    \/ \E p \in DOMAIN providers : IsAvailable(p)
    \/ GetProviderStates
    \/ \E p \in DOMAIN providers, l \in RegistryLatencies : ReportSuccess(p, l)
    \/ \E p \in DOMAIN providers : ReportError(p)
    \/ \E p \in DOMAIN providers, r \in RateLimitRemainings, t \in RateLimitResets :
           UpdateRateLimit(p, r, t)

RegistrySpec == RegistryInit /\ [][RegistryNext]_vars

----------------------------------------------------------------------------
(* One token bucket driven directly by its callers, at any readings of the *)
(* wall clock Date.now(): the clock of the host may be set back            *)

BucketStepMs == 500
BucketTimes == {k * BucketStepMs : k \in 0..MaxBucketSteps}
BucketProvider == "openai"

BucketInit ==
    /\ now = 0
    /\ providers = [id \in RegistryIds |-> NewEntry]
    /\ latency = [id \in RegistryIds |-> NoLatencyState]
    /\ lastRead = [id \in RegistryIds |-> NoRead]
    /\ openedAtEver = [id \in RegistryIds |-> NULL]
    /\ halfOpen = [id \in RegistryIds |-> FALSE]
    /\ probeAdmits = [id \in RegistryIds |-> 0]
    /\ FallbackIdle
    /\ PipelineIdle
    /\ \E maxTokens \in 1..MaxBucketTokens, refillRate \in 1..MaxRefillRate :
          buckets = [id \in AllProviders |->
                        IF id = BucketProvider
                        THEN TokenBucket(maxTokens, refillRate, now)
                        ELSE NoBucket]
    /\ acquireLog = << >>

\* Date.now() reads t from here on
WallClock(t) ==
    /\ t # now
    /\ now' = t
    /\ UNCHANGED <<registryVars, fallbackVars, pipelineVars, bucketVars>>

\* one call of a method of the bucket: `call` is what the method does
BucketCall(op, call) ==
    /\ Len(acquireLog) < MaxBucketCalls
    /\ buckets' = [buckets EXCEPT ![BucketProvider] = call.bucket]
    /\ acquireLog' = Append(acquireLog,
          [op |-> op, at |-> now, before |-> buckets[BucketProvider],
           after |-> call.bucket, result |-> call.result])

TryAcquire ==
    /\ BucketCall("tryAcquire", tryAcquire(buckets[BucketProvider], now))
    /\ UNCHANGED <<now, registryVars, fallbackVars, pipelineVars>>

GetRemaining ==
    /\ BucketCall("getRemaining", getRemaining(buckets[BucketProvider], now))
    /\ UNCHANGED <<now, registryVars, fallbackVars, pipelineVars>>

GetRetryAfter ==
    /\ BucketCall("getRetryAfter", getRetryAfter(buckets[BucketProvider], now))
    /\ UNCHANGED <<now, registryVars, fallbackVars, pipelineVars>>

BucketNext ==
    \/ \E t \in BucketTimes : WallClock(t)
    \/ TryAcquire
    \/ GetRemaining
    \/ GetRetryAfter

BucketSpec == BucketInit /\ [][BucketNext]_vars

----------------------------------------------------------------------------
(* One executeWithFallback call, on every input within the bounds *)

\* the provider lists: any order, repeats included (selectWithFallback maps
\* ranked (provider, model) pairs to their provider ids)
FallbackProviderNames == {"openai", "anthropic"}
ProviderLists ==
    UNION {[1..n -> FallbackProviderNames] : n \in 0..MaxProviders}

FallbackInit ==
    /\ now = 0
    /\ providers = [id \in RegistryIds |-> NewEntry]
    /\ latency = [id \in RegistryIds |-> NoLatencyState]
    /\ lastRead = [id \in RegistryIds |-> NoRead]
    /\ openedAtEver = [id \in RegistryIds |-> NULL]
    /\ halfOpen = [id \in RegistryIds |-> FALSE]
    /\ probeAdmits = [id \in RegistryIds |-> 0]
    /\ fbConfig \in [providers : ProviderLists, streaming : BOOLEAN,
                     maxRetries : 0..MaxRetriesConfig, ranked : {<<>>}]
    /\ fbPc = "called"
    /\ fbIdx = 0
    /\ attempt = 0
    /\ attempts = <<>>
    /\ overallAborted = FALSE
    /\ timer = FALSE
    /\ sleepLeft = 0
    /\ controllers = <<>>
    /\ attemptController = 0
    /\ execLog = <<>>
    /\ exhausted = {}
    /\ fbOutcome = [kind |-> "none", statusCode |-> 0, attempts |-> <<>>, result |-> "none"]
    /\ PipelineIdle
    /\ BucketsIdle

FallbackSpec == FallbackInit /\ [][FallbackNext]_vars

\* executeFn settles, sleep ends, and the handler's own code runs; nothing
\* makes the deadline trip
FallbackFairSpec ==
    /\ FallbackSpec
    /\ WF_vars(Call)
    /\ WF_vars(LoopHead)
    /\ WF_vars(StartAttempt)
    /\ WF_vars((\E value \in {"value", "undefined"} : ExecuteResolves(value)
                  \/ \E retryable \in BOOLEAN : ExecuteRejects(retryable))
              )
    /\ WF_vars(BackoffElapses)
    /\ WF_vars(SleepEnds)

----------------------------------------------------------------------------
(* The gateway serving requests: the singleton registry of the three        *)
(* providers behind the middleware chain                                    *)

\* the models requests ask for; "none" is a body without a model
RequestModels == {"gpt-4o", "smart-model", "gemini-2.0-flash", "mistral-large", "none"}
\* the requests of the chain carry no X-Timeout-Ms header
ChainTimeoutHeaders == {NoTimeoutHeader}
\* the x-routing-strategy hints sent
RequestHints == {"none", "latency"}
\* deployments: which API keys are set
KeyConfigs == {AllProviders, AllProviders \ {"openai"}}
\* deployments: models.json; one of the models does not stream
CapabilityConfigs ==
    { [m \in {MODEL_PRICING[k].modelId : k \in DOMAIN MODEL_PRICING} |->
          IF m = "gemini-2.0-flash" THEN {"function_calling"}
          ELSE {"streaming", "function_calling", "json_mode"}] }
\* earlier traffic: nothing in the semantic cache, or the document of a
\* request for gpt-4o that missed and was answered by the provider
EarlierRequest ==
    [NoRequest EXCEPT
        !.model = "gpt-4o",
        !.xCache = "MISS",
        !.status = 200,
        !.body = [id |-> "chatcmpl-1", created |-> 0, model |-> "gpt-4o",
                  content |-> "4", finishReason |-> "stop"]]
InitialCaches == {{}, {cacheEntry(EarlierRequest)}}
\* the ids the responses of the chain are given
ChainResponseIds == {"chatcmpl-1"}
\* what goes wrong in the cache calls of the chain, and in the stores
ChainCacheFaults == {"none", "redis"}
\* earlier traffic: the bucket of the provider was not used yet, was drained
\* just now, or was drained a millisecond less than a token's refill ago
InitialBuckets ==
    { NoBucket,
      [TokenBucket(RATE_LIMIT_MAX_TOKENS, RATE_LIMIT_REFILL_RATE, 0) EXCEPT !.tokens = 0],
      [TokenBucket(RATE_LIMIT_MAX_TOKENS, RATE_LIMIT_REFILL_RATE, 0)
          EXCEPT !.tokens = MilliTokens - RATE_LIMIT_REFILL_RATE] }
\* Date.now() between two readings within one handler: the same millisecond
\* or the next
ClockSkews == {0, 1}
\* earlier traffic: the provider that failed, and the consecutive errors it
\* has when the first request arrives
ErroredProvider == "openai"
InitialErrors == {0, CIRCUIT_BREAKER_THRESHOLD - 1, CIRCUIT_BREAKER_THRESHOLD}

\* the entry and the latency state after k reportError calls at time 0
RECURSIVE ErroredEntry(_)
ErroredEntry(k) ==
    IF k = 0 THEN NewEntry ELSE reportErrorEntry(ErroredEntry(k - 1), 0)

RECURSIVE ErroredLatency(_)
ErroredLatency(k) ==
    IF k = 0 THEN NoLatencyState ELSE recordLatency(ErroredLatency(k - 1), 0, FALSE)

Init ==
    /\ now = 0
    /\ \E k \in InitialErrors :
          /\ providers = [id \in AllProviders |->
                             IF id = ErroredProvider THEN ErroredEntry(k)
                             ELSE NewEntry]
          /\ latency = [id \in AllProviders |->
                           IF id = ErroredProvider THEN ErroredLatency(k)
                           ELSE NoLatencyState]
    /\ lastRead = [id \in AllProviders |-> NoRead]
    /\ openedAtEver = [id \in AllProviders |-> providers[id].circuitOpenedAt]
    /\ halfOpen = [id \in AllProviders |-> FALSE]
    /\ probeAdmits = [id \in AllProviders |-> 0]
    /\ FallbackIdle
    /\ apiKeys \in KeyConfigs
    /\ capabilities \in CapabilityConfigs
    /\ cache \in InitialCaches
    /\ stores = {}
    /\ cacheEnabled = TRUE
    /\ nodeEnv = "production"
    /\ TrackersIdle
    /\ requests = [r \in 1..MaxRequests |-> NoRequest]
    /\ rateLimitEnabled \in BOOLEAN
    /\ isShuttingDown = FALSE
    /\ \E bucket \in InitialBuckets :
          buckets = [id \in AllProviders |->
                        IF id = ErroredProvider /\ rateLimitEnabled THEN bucket
                        ELSE NoBucket]
    /\ acquireLog = << >>

\* time passes while the gateway serves, up to one cooldown
Elapse ==
    /\ now < CIRCUIT_BREAKER_COOLDOWN_MS
    /\ now' = now + TickMs
    /\ UNCHANGED registryVars
    /\ UNCHANGED nonRegistryVars

Next ==
    \/ Elapse
    \/ Shutdown
    \/ \E r \in DOMAIN requests, model \in RequestModels, stream \in BOOLEAN :
          /\ IF r = 1 THEN TRUE ELSE requests[r - 1].pc = "retired"
          /\ DrainGate(r, model, stream)
    \/ \E r \in DOMAIN requests : Tracing(r)
    \/ \E r \in DOMAIN requests : RequestLogger(r)
    \/ \E r \in DOMAIN requests, authHeader \in AuthHeaders : Auth(r, authHeader)
    \/ \E r \in DOMAIN requests, tooLarge \in BOOLEAN : BodyLimit(r, tooLarge)
    \/ \E r \in DOMAIN requests, skew \in ClockSkews : RateLimiter(r, skew)
    \/ \E r \in DOMAIN requests, headerTimeout \in ChainTimeoutHeaders :
          Timeout(r, headerTimeout)
    \/ \E r \in DOMAIN requests : DeadlineTrips(r)
    \/ \E r \in DOMAIN requests, hints \in RequestHints : SmartRouter(r, hints)
    \/ \E r \in DOMAIN requests, skipCache \in BOOLEAN, fault \in ChainCacheFaults,
          id \in ChainResponseIds :
          SemanticCache(r, skipCache, fault, id)
    \/ \E r \in DOMAIN requests, valid \in BOOLEAN : Validator(r, valid)
    \/ \E r \in DOMAIN requests : ChatHandler(r)
    \/ \E r \in DOMAIN requests, id \in ChainResponseIds, text \in Completions :
          UpstreamResolves(r, id, text)
    \/ \E r \in DOMAIN requests, err \in UpstreamErrors : UpstreamRejects(r, err)
    \/ \E r \in DOMAIN requests : NextRejects(r)
    \/ \E r \in DOMAIN requests : StreamEnds(r)
    \/ \E r \in DOMAIN requests : StreamTimerFires(r)
    \/ \E r \in DOMAIN requests : CacheStore(r)
    \/ \E entry \in stores, fault \in ChainCacheFaults : StoreSettles(entry, fault)
    \/ \E r \in DOMAIN requests : SmartRouterPost(r)
    \/ \E r \in DOMAIN requests : TimeoutPost(r)
    \/ \E r \in DOMAIN requests : Respond(r)
    \/ \E r \in DOMAIN requests : Retire(r)

Spec == Init /\ [][Next]_vars

\* the gateway as it starts: nothing recorded, nothing cached, no bucket
\* created, every key configured, the rate limiter enabled as by default
FreshInit ==
    /\ now = 0
    /\ providers = [id \in AllProviders |-> NewEntry]
    /\ latency = [id \in AllProviders |-> NoLatencyState]
    /\ lastRead = [id \in AllProviders |-> NoRead]
    /\ openedAtEver = [id \in AllProviders |-> NULL]
    /\ halfOpen = [id \in AllProviders |-> FALSE]
    /\ probeAdmits = [id \in AllProviders |-> 0]
    /\ FallbackIdle
    /\ apiKeys = AllProviders
    /\ capabilities \in CapabilityConfigs
    /\ cache = {}
    /\ stores = {}
    /\ cacheEnabled = TRUE
    /\ nodeEnv = "production"
    /\ TrackersIdle
    /\ requests = [r \in 1..MaxRequests |-> NoRequest]
    /\ rateLimitEnabled = TRUE
    /\ isShuttingDown = FALSE
    /\ BucketsIdle

FreshSpec == FreshInit /\ [][Next]_vars

----------------------------------------------------------------------------
(* Properties of the circuit breaker *)

\* C1: once the cooldown of an open circuit has elapsed, at most one of the
\* isAvailable / getProviderStates reads made before reportSuccess or
\* reportError for that provider observes it as available.
C1_SingleProbeHalfOpen ==
    \A p \in DOMAIN providers : probeAdmits[p] <= 1

\* C2: a read of provider p made less than the cooldown after p's circuit
\* was opened observes p as unavailable, whatever outcomes were reported in
\* between.
C2_UnavailableDuringCooldown ==
    \A p \in DOMAIN providers :
        (/\ lastRead[p] # NoRead
         /\ openedAtEver[p] # NULL
         /\ lastRead[p].at - openedAtEver[p] < CIRCUIT_BREAKER_COOLDOWN_MS)
            => ~lastRead[p].available

\* C3: a reportError for a provider whose cooldown has elapsed and whose
\* probe was admitted opens the circuit again at once, with opened-at equal
\* to the time of that failure.
C3_FailedProbeReopensCircuit ==
    [][\A p \in DOMAIN providers :
          (/\ halfOpen[p]
           /\ providers'[p].consecutiveErrors = providers[p].consecutiveErrors + 1)
              => providers'[p].circuitOpenedAt = now]_vars

\* C19: an open circuit has at least CIRCUIT_BREAKER_THRESHOLD consecutive
\* errors, and a reportError on a closed circuit opens it exactly when it
\* brings the count to the threshold, with opened-at the time of the call.
C19_OpensAtThreshold ==
    /\ [](\A p \in DOMAIN providers :
            providers[p].circuitOpenedAt # NULL
                => providers[p].consecutiveErrors >= CIRCUIT_BREAKER_THRESHOLD)
    /\ [][\A p \in DOMAIN providers :
            (ReportError(p) /\ providers[p].circuitOpenedAt = NULL) =>
                IF providers[p].consecutiveErrors + 1 = CIRCUIT_BREAKER_THRESHOLD
                THEN providers'[p].circuitOpenedAt = now
                ELSE /\ providers'[p].circuitOpenedAt = NULL
                     /\ providers[p].consecutiveErrors + 1 < CIRCUIT_BREAKER_THRESHOLD]_vars

\* the circuit was opened by the error that made the count the threshold,
\* some time after the start
C19_Witness ==
    \E p \in DOMAIN providers :
        /\ providers[p].circuitOpenedAt = now
        /\ now > 0
        /\ providers[p].consecutiveErrors = CIRCUIT_BREAKER_THRESHOLD
        /\ providers[p].lastErrorAt = now

\* C20: reportError adds exactly 1 to the consecutive-error count, and
\* reportSuccess leaves the count 0 and the circuit closed whatever the
\* state before.
C20_ErrorIncrementsSuccessResets ==
    [][\A p \in DOMAIN providers :
          /\ ReportError(p) =>
                providers'[p].consecutiveErrors = providers[p].consecutiveErrors + 1
          /\ (\E l \in RegistryLatencies : ReportSuccess(p, l)) =>
                /\ providers'[p].consecutiveErrors = 0
                /\ providers'[p].circuitOpenedAt = NULL]_vars

\* reportSuccess has closed a circuit within its cooldown
C20_Witness ==
    \E p \in DOMAIN providers :
        /\ openedAtEver[p] = now
        /\ providers[p].circuitOpenedAt = NULL
        /\ providers[p].consecutiveErrors = 0
        /\ latency[p].initialised
        /\ latency[p].samples[Len(latency[p].samples)] > 0

\* C21: a reportError call leaves the latency state of its provider as it
\* was: the EMA after the call equals the EMA before it and the window of
\* samples is unchanged.
C21_ErrorLeavesLatencyUnchanged ==
    [][\A p \in DOMAIN providers :
          ReportError(p) =>
              /\ latency'[p].ema = latency[p].ema
              /\ latency'[p].samples = latency[p].samples]_vars

----------------------------------------------------------------------------
(* Properties of the token bucket *)

\* C17: whatever calls were made and whatever the clock read, the token
\* count of a bucket is within [0, maxTokens].
C17_TokensWithinBounds ==
    \A p \in DOMAIN buckets :
        buckets[p] # NoBucket =>
            /\ buckets[p].tokens >= 0
            /\ buckets[p].tokens <= buckets[p].maxTokens * MilliTokens

RefilledTokens(call) ==
    LET added == call.before.tokens
                   + (call.at - call.before.lastRefillAt) * call.before.refillRate
        full == call.before.maxTokens * MilliTokens
    IN IF added < full THEN added ELSE full

\* C18: tryAcquire returns true exactly when the refilled count
\* min(max, tokens + elapsed * rate) holds a whole token, removes exactly
\* one token when it returns true and none otherwise; and with max = 1 and
\* rate = 1/s two calls at the time of construction return true then false
\* and a call one second after a draining call returns true.
C18_TryAcquireRefillsThenTakesOne ==
    /\ \A k \in DOMAIN acquireLog :
          acquireLog[k].op = "tryAcquire" =>
              /\ acquireLog[k].result <=> RefilledTokens(acquireLog[k]) >= MilliTokens
              /\ acquireLog[k].after.tokens =
                     RefilledTokens(acquireLog[k])
                       - (IF acquireLog[k].result THEN MilliTokens ELSE 0)
    /\ \A k \in DOMAIN acquireLog :
          (/\ acquireLog[k].op = "tryAcquire"
           /\ acquireLog[k].before.maxTokens = 1
           /\ acquireLog[k].before.refillRate = 1) =>
              /\ (k = 1 /\ acquireLog[k].at = 0) => acquireLog[k].result
              /\ (k > 1 /\ acquireLog[k - 1].op = "tryAcquire" /\ acquireLog[k - 1].result) =>
                    /\ acquireLog[k].at = acquireLog[k - 1].at => ~acquireLog[k].result
                    /\ acquireLog[k].at = acquireLog[k - 1].at + 1000 => acquireLog[k].result

\* max = 1, rate = 1/s: true and false at the time of construction, true
\* one second later
C18_Witness ==
    /\ Len(acquireLog) = 3
    /\ \A k \in 1..3 : acquireLog[k].op = "tryAcquire"
    /\ acquireLog[1].before.maxTokens = 1 /\ acquireLog[1].before.refillRate = 1
    /\ acquireLog[1].at = 0 /\ acquireLog[1].result
    /\ acquireLog[2].at = 0 /\ ~acquireLog[2].result
    /\ acquireLog[3].at = 1000 /\ acquireLog[3].result

----------------------------------------------------------------------------
(* Properties of the fallback handler *)

FallbackDone == fbPc \in {"returned", "threw"}

ExecuteCallsBounded ==
    /\ Len(execLog) <= Len(fbConfig.providers) * (fbConfig.maxRetries + 1)
    /\ fbConfig.streaming => Len(execLog) <= Len(fbConfig.providers)

NoAttemptSucceeded == \A k \in DOMAIN attempts : attempts[k].error # "null"

\* C8: when no attempt succeeds the call throws FallbackTimeoutError (504)
\* exactly when the overall deadline tripped and AllProvidersFailedError
\* (503) exactly when every provider was exhausted without it tripping; the
\* error carries the whole attempt log, one record per executeFn call.
C8_TerminalErrorMatchesDeadline ==
    (FallbackDone /\ NoAttemptSucceeded) =>
        /\ fbPc = "threw"
        /\ (fbOutcome.kind = "FallbackTimeoutError") <=> overallAborted
        /\ (fbOutcome.kind = "AllProvidersFailedError")
              <=> (~overallAborted /\ exhausted = 1..Len(fbConfig.providers))
        /\ fbOutcome.kind = "FallbackTimeoutError" => fbOutcome.statusCode = 504
        /\ fbOutcome.kind = "AllProvidersFailedError" => fbOutcome.statusCode = 503
        /\ fbOutcome.attempts = attempts
        /\ Len(attempts) = Len(execLog)
        /\ \A k \in DOMAIN attempts : attempts[k].provider = execLog[k].provider

\* the deadline tripped after a first failed attempt, during a later one
C8_Witness ==
    /\ fbPc = "threw"
    /\ fbOutcome.kind = "FallbackTimeoutError"
    /\ NoAttemptSucceeded
    /\ Len(attempts) >= 2

\* C9: providers are tried in the given order, provider i+1 only after
\* provider i is exhausted, and after the first executeFn call that succeeds
\* no other call is made and that result is returned.
C9_RankOrderFirstSuccessReturns ==
    /\ \A k \in 1..(Len(execLog) - 1) :
          \/ execLog[k + 1].idx = execLog[k].idx
          \/ /\ execLog[k + 1].idx = execLog[k].idx + 1
             /\ execLog[k].idx \in exhausted
    /\ \A k \in DOMAIN attempts :
          attempts[k].error = "null" =>
              /\ k = Len(attempts)
              /\ Len(execLog) = k
              /\ fbPc = "returned"
              /\ fbOutcome.kind = "result"

\* C10: the overall deadline tripping cancels the token of the attempt in
\* flight, and when a provider is retried the token of its previous attempt
\* is cancelled before executeFn is called again.
C10_CancellationCascades ==
    fbPc = "executing" =>
        /\ overallAborted => controllers[attemptController].aborted
        /\ \A k \in 1..(attemptController - 1) :
              controllers[k].idx = fbIdx => controllers[k].aborted

\* the deadline trips while a retry of a provider is in flight
C10_Witness ==
    /\ fbPc = "executing"
    /\ attempt >= 1
    /\ overallAborted

\* C11: once the overall deadline has tripped while tryProvider sleeps in a
\* backoff, the sleep is over at the next step: none of the backoff that is
\* left is waited out.
C11_DeadlineInterruptsBackoff ==
    [][(fbPc = "sleeping" /\ overallAborted) => fbPc' # "sleeping"]_vars

----------------------------------------------------------------------------
(* The smart router alone: one request handed to it by the stages above,   *)
(* on every registry within the bounds                                      *)

\* what earlier calls left for one provider: its registry entry and its
\* latency state.  Nothing yet; one success of 100 ms, of 1000 ms, of 1330 ms
\* or of 2400 ms; an error after a success; the circuit tripped at time 0;
\* updateRateLimit(0, one tick ahead) after a success of 100 ms
ProviderHistories ==
    { [entry |-> NewEntry, lat |-> NoLatencyState],
      [entry |-> NewEntry, lat |-> recordLatency(NoLatencyState, 100, TRUE)],
      [entry |-> NewEntry, lat |-> recordLatency(NoLatencyState, 1000, TRUE)],
      [entry |-> NewEntry, lat |-> recordLatency(NoLatencyState, 1330, TRUE)],
      [entry |-> NewEntry, lat |-> recordLatency(NoLatencyState, 2400, TRUE)],
      [entry |-> reportErrorEntry(NewEntry, 0),
       lat |-> recordLatency(recordLatency(NoLatencyState, 100, TRUE), 0, FALSE)],
      [entry |-> ErroredEntry(CIRCUIT_BREAKER_THRESHOLD),
       lat |-> ErroredLatency(CIRCUIT_BREAKER_THRESHOLD)],
      [entry |-> updateRateLimitEntry(NewEntry, 0, TickMs),
       lat |-> recordLatency(NoLatencyState, 100, TRUE)] }

\* Date.now() when the request reaches the router
RouterTimes == {0, TickMs, CIRCUIT_BREAKER_COOLDOWN_MS}

\* the request as authMiddleware, bodyLimit, rateLimiter (disabled) and
\* timeoutMiddleware pass it on
AtRouter(model, stream) ==
    [NoRequest EXCEPT
        !.pc = "router",
        !.model = model,
        !.stream = stream,
        !.authHeader = [scheme |-> "Bearer ", token |-> GATEWAY_API_KEY],
        !.entered = <<"gate", "tracing", "logger", "auth", "bodyLimit", "rateLimit",
                      "timeout">>,
        !.deadline = "armed",
        !.timeoutMs = effectiveTimeout(model, NoTimeoutHeader, DefaultTimeoutMs)]

RouterInit ==
    /\ now \in RouterTimes
    /\ \E history \in [AllProviders -> ProviderHistories] :
          /\ providers = [id \in AllProviders |-> history[id].entry]
          /\ latency = [id \in AllProviders |-> history[id].lat]
    /\ lastRead = [id \in AllProviders |-> NoRead]
    /\ openedAtEver = [id \in AllProviders |-> providers[id].circuitOpenedAt]
    /\ halfOpen = [id \in AllProviders |-> FALSE]
    /\ probeAdmits = [id \in AllProviders |-> 0]
    /\ FallbackIdle
    /\ apiKeys = AllProviders
    /\ capabilities \in CapabilityConfigs
    /\ cache = {}
    /\ stores = {}
    /\ cacheEnabled = TRUE
    /\ nodeEnv = "production"
    /\ TrackersIdle
    /\ \E model \in RequestModels, stream \in BOOLEAN :
          requests = [r \in 1..MaxRequests |-> AtRouter(model, stream)]
    /\ rateLimitEnabled = FALSE
    /\ isShuttingDown = FALSE
    /\ BucketsIdle

RouterNext ==
    \E r \in DOMAIN requests, hints \in RequestHints : SmartRouter(r, hints)

RouterSpec == RouterInit /\ [][RouterNext]_vars

----------------------------------------------------------------------------
(* ModelSelector.selectWithFallback driven directly by its caller *)

\* what earlier calls left for one provider: nothing; one success of 100 ms;
\* the circuit tripped at time 0.  The circuit of google is open, anthropic
\* was not called with success
SelectorHistories ==
    { [entry |-> NewEntry, lat |-> NoLatencyState],
      [entry |-> NewEntry, lat |-> recordLatency(NoLatencyState, 100, TRUE)],
      [entry |-> ErroredEntry(CIRCUIT_BREAKER_THRESHOLD),
       lat |-> ErroredLatency(CIRCUIT_BREAKER_THRESHOLD)] }

SelectorInit ==
    /\ now = 0
    /\ \E history \in [AllProviders -> SelectorHistories] :
          /\ history["google"].entry.circuitOpenedAt # NULL
          /\ history["anthropic"].lat = NoLatencyState
          /\ providers = [id \in AllProviders |-> history[id].entry]
          /\ latency = [id \in AllProviders |-> history[id].lat]
    /\ lastRead = [id \in AllProviders |-> NoRead]
    /\ openedAtEver = [id \in AllProviders |-> providers[id].circuitOpenedAt]
    /\ halfOpen = [id \in AllProviders |-> FALSE]
    /\ probeAdmits = [id \in AllProviders |-> 0]
    /\ FallbackIdle
    /\ apiKeys = AllProviders
    /\ capabilities \in CapabilityConfigs
    /\ cache = {}
    /\ stores = {}
    /\ cacheEnabled = TRUE
    /\ nodeEnv = "production"
    /\ TrackersIdle
    /\ requests = << >>
    /\ rateLimitEnabled = FALSE
    /\ isShuttingDown = FALSE
    /\ BucketsIdle

\* selectWithFallback up to `await this.fallbackHandler.executeWithFallback(`:
\* the snapshot, the ranked list, or the Error when the list is empty
SelectWithFallback(request, maxRetries) ==
    /\ fbPc = "idle"
    /\ LET ranked == selectProvider(providers, latency, now, request,
                                    capabilities).available
       IN IF ranked = << >>
          THEN /\ fbPc' = "threw"
               /\ fbOutcome' = [kind |-> "Error", statusCode |-> 0,
                                attempts |-> << >>, result |-> "none"]
               /\ UNCHANGED fbConfig
          ELSE /\ fbPc' = "called"
               /\ fbConfig' = [providers |-> providerIds(ranked),
                               streaming |-> request.stream,
                               maxRetries |-> maxRetries,
                               ranked |-> ranked]
               /\ UNCHANGED fbOutcome
    /\ DoRead(DOMAIN providers)
    /\ UNCHANGED <<fbIdx, attempt, attempts, overallAborted, timer, sleepLeft,
                   controllers, attemptController, execLog, exhausted>>
    /\ UNCHANGED <<now, pipelineVars, bucketVars>>

SelectorNext ==
    \/ \E model \in {"gpt-4o"}, stream \in BOOLEAN, maxRetries \in 0..MaxRetriesConfig :
          SelectWithFallback([model |-> model, stream |-> stream, hints |-> "none"],
                             maxRetries)
    \/ FallbackNext

SelectorSpec == SelectorInit /\ [][SelectorNext]_vars

----------------------------------------------------------------------------
(* The error tracker driven directly by its callers *)

MaxTrackerCalls == 2
\* the errors recorded: a 429, a 503, a 503 that is a timeout
TrackerErrors ==
    { [statusCode |-> 429, isTimeout |-> FALSE],
      [statusCode |-> 503, isTimeout |-> FALSE],
      [statusCode |-> 503, isTimeout |-> TRUE] }

TrackerInit ==
    /\ now = 0
    /\ providers = [id \in RegistryIds |-> NewEntry]
    /\ latency = [id \in RegistryIds |-> NoLatencyState]
    /\ lastRead = [id \in RegistryIds |-> NoRead]
    /\ openedAtEver = [id \in RegistryIds |-> NULL]
    /\ halfOpen = [id \in RegistryIds |-> FALSE]
    /\ probeAdmits = [id \in RegistryIds |-> 0]
    /\ FallbackIdle
    /\ PipelineIdle
    /\ BucketsIdle

\* the variables the trackers do not write
nonTrackerVars ==
    <<registryVars, fallbackVars, bucketVars, apiKeys, capabilities, cache, stores,
      cacheEnabled, nodeEnv, requests, rateLimitEnabled, isShuttingDown>>

\* metrics.ts recordRequest
RecordRequest ==
    /\ totalRequests < MaxTrackerCalls
    /\ totalRequests' = totalRequests + 1
    /\ UNCHANGED <<now, errorTracker, costTracker>>
    /\ UNCHANGED nonTrackerVars

RecordError(provider, statusCode, isTimeout) ==
    /\ errorTracker.totalErrors < MaxTrackerCalls
    /\ errorTracker' = recordError(errorTracker, provider, statusCode, isTimeout, now,
                                   totalRequests)
    /\ UNCHANGED <<now, totalRequests, costTracker>>
    /\ UNCHANGED nonTrackerVars

RecordSuccess(provider) ==
    /\ errorTracker' = recordSuccess(errorTracker, provider)
    /\ UNCHANGED <<now, totalRequests, costTracker>>
    /\ UNCHANGED nonTrackerVars

\* getProviderHealth, getErrorSummary: the read prunes the window
ReadTracker ==
    /\ errorTracker' = readTracker(errorTracker, now)
    /\ UNCHANGED <<now, totalRequests, costTracker>>
    /\ UNCHANGED nonTrackerVars

\* half the error-rate window passes
TrackerElapse ==
    /\ now < 2 * ERROR_RATE_WINDOW_MS
    /\ now' = now + ERROR_RATE_WINDOW_MS \div 2
    /\ UNCHANGED trackerVars
    /\ UNCHANGED nonTrackerVars

TrackerNext ==
    \/ RecordRequest
    \/ \E provider \in {"openai", "unknown"}, e \in TrackerErrors :
          RecordError(provider, e.statusCode, e.isTimeout)
    \/ \E provider \in {"openai"} : RecordSuccess(provider)
    \/ ReadTracker
    \/ TrackerElapse

TrackerSpec == TrackerInit /\ [][TrackerNext]_vars

----------------------------------------------------------------------------
(* The cost tracker driven directly by its caller *)

MaxCostCalls == 2

\* the module after the requests of n models it had not seen before, one
\* request of a thousand input tokens each
CostTrackerAfter(n) ==
    LET price == getModelPricing("model-1").inputPer1k
        record(k) == [provider |-> "openai", modelId |-> "model-" \o ToString(k),
                      inputTokens |-> 1, outputTokens |-> 0, costUsd |-> price,
                      timestamp |-> 0]
        kept == IF n > MAX_RECENT_REQUESTS THEN MAX_RECENT_REQUESTS ELSE n
    IN [CostTrackerIdle EXCEPT
          !.totalCostUsd = n * price,
          !.totalInputTokens = n,
          !.byProvider["openai"] = [requests |-> n, totalCost |-> n * price,
                                    inputTokens |-> n, outputTokens |-> 0],
          !.byModel = [k \in 1..n |-> [key |-> "model-" \o ToString(k),
                                       requests |-> 1, totalCost |-> price]],
          !.recentRequests = [k \in 1..kept |-> record(n - kept + k)]]

CostInit ==
    /\ now = 0
    /\ providers = [id \in RegistryIds |-> NewEntry]
    /\ latency = [id \in RegistryIds |-> NoLatencyState]
    /\ lastRead = [id \in RegistryIds |-> NoRead]
    /\ openedAtEver = [id \in RegistryIds |-> NULL]
    /\ halfOpen = [id \in RegistryIds |-> FALSE]
    /\ probeAdmits = [id \in RegistryIds |-> 0]
    /\ FallbackIdle
    /\ apiKeys = {}
    /\ capabilities = << >>
    /\ cache = {}
    /\ stores = {}
    /\ cacheEnabled = TRUE
    /\ nodeEnv = "development"
    /\ errorTracker = ErrorTrackerIdle
    /\ totalRequests = 0
    /\ costTracker \in {CostTrackerAfter(n) :
                            n \in {0, MAX_MODEL_ENTRIES - 1, MAX_MODEL_ENTRIES}}
    /\ requests = << >>
    /\ rateLimitEnabled = TRUE
    /\ isShuttingDown = FALSE
    /\ BucketsIdle

RecordCost(provider, modelId, inputTokens, outputTokens) ==
    /\ costTracker.calls < MaxCostCalls
    /\ costTracker' = recordCost(costTracker, provider, modelId, inputTokens,
                                 outputTokens, now)
    /\ UNCHANGED <<now, errorTracker, totalRequests>>
    /\ UNCHANGED nonTrackerVars

CostNext ==
    \E provider \in {"openai", "anthropic"}, modelId \in {"gpt-4o", "gpt-5-preview"},
       tokens \in {<<0, 0>>, <<1, 1>>} :
       RecordCost(provider, modelId, tokens[1], tokens[2])

CostSpec == CostInit /\ [][CostNext]_vars

----------------------------------------------------------------------------
(* timeoutMiddleware alone: one request handed to it by the stages above,  *)
(* with every X-Timeout-Ms header within the bounds                        *)

\* the models of the requests handed to timeoutMiddleware
TimeoutModels == RequestModels \cup {"claude-haiku-3-5"}

\* the X-Timeout-Ms headers: none, not a number, zero, negative, below the
\* minimum, the minimum, in range, in range with a unit after it, a decimal
\* fraction, the maximum, above it
TimeoutHeaders ==
    { NoTimeoutHeader, <<"abc">>, <<"0">>, <<"-", "5000">>, <<"500">>, <<"1000">>,
      <<"5000">>, <<"5000", "ms">>, <<"12", ".", "500">>, <<"120000">>, <<"120001">>,
      <<"200000">> }

\* the request as authMiddleware, bodyLimit and rateLimiter (disabled) pass
\* it on
AtTimeout(model, stream) ==
    [NoRequest EXCEPT
        !.pc = "timeout",
        !.model = model,
        !.stream = stream,
        !.authHeader = [scheme |-> "Bearer ", token |-> GATEWAY_API_KEY],
        !.entered = <<"gate", "tracing", "logger", "auth", "bodyLimit", "rateLimit">>]

TimeoutInit ==
    /\ now = 0
    /\ providers = [id \in AllProviders |-> NewEntry]
    /\ latency = [id \in AllProviders |-> NoLatencyState]
    /\ lastRead = [id \in AllProviders |-> NoRead]
    /\ openedAtEver = [id \in AllProviders |-> NULL]
    /\ halfOpen = [id \in AllProviders |-> FALSE]
    /\ probeAdmits = [id \in AllProviders |-> 0]
    /\ FallbackIdle
    /\ apiKeys = AllProviders
    /\ capabilities \in CapabilityConfigs
    /\ cache = {}
    /\ stores = {}
    /\ cacheEnabled = TRUE
    /\ nodeEnv = "production"
    /\ TrackersIdle
    /\ \E model \in TimeoutModels, stream \in BOOLEAN :
          requests = [r \in 1..MaxRequests |-> AtTimeout(model, stream)]
    /\ rateLimitEnabled = FALSE
    /\ isShuttingDown = FALSE
    /\ BucketsIdle

TimeoutNext ==
    \E r \in DOMAIN requests, headerTimeout \in TimeoutHeaders : Timeout(r, headerTimeout)

TimeoutSpec == TimeoutInit /\ [][TimeoutNext]_vars

----------------------------------------------------------------------------
(* The semantic cache behind the smart router: requests sent one after the *)
(* other, each when the one before it was answered, starting from an empty *)
(* index                                                                   *)

\* the requests sent
MaxCacheRequests == 2

\* the bodies sent: a prompt at temperature 0.7 and max_tokens 256; the same
\* at temperature 0.1; with max_tokens 16; for another model; for model
\* names written in the syntax of TAG filters; as a stream; another prompt;
\* for a model alias
CacheRequests ==
    LET plain == [model |-> "gpt-4o", stream |-> FALSE, prompt |-> "What is 2+2?",
                  temperature |-> 7, maxTokens |-> 256]
    IN { plain,
         [plain EXCEPT !.temperature = 1],
         [plain EXCEPT !.maxTokens = 16],
         [plain EXCEPT !.model = "gpt-4o-mini"],
         [plain EXCEPT !.model = "gpt-4o*"],
         [plain EXCEPT !.model = "gpt-4o|gpt-4o-mini"],
         [plain EXCEPT !.stream = TRUE],
         [plain EXCEPT !.prompt = "ping"],
         [plain EXCEPT !.model = "smart-model"] }

\* what generateText rejects with: the provider answers 503
CacheUpstreamErrors ==
    {[kind |-> "APICallError", statusCode |-> 503, message |-> "Service Unavailable"]}

\* the request with this body as timeoutMiddleware passes it on
AtRouterWith(body) ==
    [AtRouter(body.model, body.stream) EXCEPT
        !.prompt = body.prompt,
        !.temperature = body.temperature,
        !.maxTokens = body.maxTokens]

CacheInit ==
    /\ now = 0
    /\ providers = [id \in AllProviders |-> NewEntry]
    /\ latency = [id \in AllProviders |-> NoLatencyState]
    /\ lastRead = [id \in AllProviders |-> NoRead]
    /\ openedAtEver = [id \in AllProviders |-> NULL]
    /\ halfOpen = [id \in AllProviders |-> FALSE]
    /\ probeAdmits = [id \in AllProviders |-> 0]
    /\ FallbackIdle
    /\ apiKeys = AllProviders
    /\ capabilities \in CapabilityConfigs
    /\ cache = {}
    /\ stores = {}
    /\ cacheEnabled \in BOOLEAN
    /\ nodeEnv = "production"
    /\ TrackersIdle
    /\ \E bodies \in [1..MaxCacheRequests -> CacheRequests] :
          requests = [r \in 1..MaxCacheRequests |-> AtRouterWith(bodies[r])]
    /\ rateLimitEnabled = FALSE
    /\ isShuttingDown = FALSE
    /\ BucketsIdle

CacheNext ==
    \/ \E r \in DOMAIN requests :
          /\ IF r = 1 THEN TRUE ELSE requests[r - 1].pc = "retired"
          /\ SmartRouter(r, "none")
    \/ \E r \in DOMAIN requests, skipCache \in BOOLEAN, fault \in CacheFaults,
          id \in ResponseIds :
          SemanticCache(r, skipCache, fault, id)
    \/ \E r \in DOMAIN requests : Validator(r, TRUE)
    \/ \E r \in DOMAIN requests : ChatHandler(r)
    \/ \E r \in DOMAIN requests, id \in ResponseIds, text \in Completions :
          UpstreamResolves(r, id, text)
    \/ \E r \in DOMAIN requests, err \in CacheUpstreamErrors : UpstreamRejects(r, err)
    \/ \E r \in DOMAIN requests : NextRejects(r)
    \/ \E r \in DOMAIN requests : StreamEnds(r)
    \/ \E r \in DOMAIN requests : StreamTimerFires(r)
    \/ \E r \in DOMAIN requests : CacheStore(r)
    \/ \E entry \in stores, fault \in ChainCacheFaults : StoreSettles(entry, fault)
    \/ \E r \in DOMAIN requests : SmartRouterPost(r)
    \/ \E r \in DOMAIN requests : TimeoutPost(r)
    \/ \E r \in DOMAIN requests : Respond(r)
    \/ \E r \in DOMAIN requests : Retire(r)

CacheSpec == CacheInit /\ [][CacheNext]_vars

----------------------------------------------------------------------------
(* errorHandler alone: one request whose upstream call rejects with every  *)
(* error within the bounds                                                 *)

\* what the chat handler can throw on to app.onError: an APICallError with
\* the status of the provider, or with none (network); the errors of the
\* fallback handler; another Error
UpstreamMessages ==
    {"Incorrect API key provided: sk-proj-1234", "Rate limit reached for org-42"}

HandlerErrors ==
    { [kind |-> "APICallError", statusCode |-> s, message |-> m] :
         s \in {400, 401, 403, 404, 409, 422, 429, 500, 502, 503, 504, 529, NULL},
         m \in UpstreamMessages }
    \cup { [kind |-> k, statusCode |-> 504, message |-> m] :
             k \in {"FallbackTimeoutError"}, m \in UpstreamMessages }
    \cup { [kind |-> k, statusCode |-> 503, message |-> m] :
             k \in {"AllProvidersFailedError"}, m \in UpstreamMessages }
    \cup { [kind |-> k, statusCode |-> NULL, message |-> m] :
             k \in {"Error"}, m \in UpstreamMessages }

HandlerInit ==
    /\ now \in RouterTimes
    /\ providers = [id \in AllProviders |-> NewEntry]
    /\ latency = [id \in AllProviders |-> NoLatencyState]
    /\ lastRead = [id \in AllProviders |-> NoRead]
    /\ openedAtEver = [id \in AllProviders |-> NULL]
    /\ halfOpen = [id \in AllProviders |-> FALSE]
    /\ probeAdmits = [id \in AllProviders |-> 0]
    /\ FallbackIdle
    /\ apiKeys = AllProviders
    /\ capabilities \in CapabilityConfigs
    /\ cache = {}
    /\ stores = {}
    /\ cacheEnabled = TRUE
    /\ nodeEnv \in {"production", "development"}
    /\ TrackersIdle
    /\ \E model \in {"gpt-4o", "claude-haiku-3-5", "gemini-2.0-flash"} :
          requests = [r \in 1..MaxRequests |-> AtRouter(model, FALSE)]
    /\ rateLimitEnabled = FALSE
    /\ isShuttingDown = FALSE
    /\ BucketsIdle

HandlerNext ==
    \/ \E r \in DOMAIN requests : SmartRouter(r, "none")
    \/ \E r \in DOMAIN requests : SemanticCache(r, FALSE, "none", "chatcmpl-1")
    \/ \E r \in DOMAIN requests : Validator(r, TRUE)
    \/ \E r \in DOMAIN requests : ChatHandler(r)
    \/ \E r \in DOMAIN requests, err \in HandlerErrors : UpstreamRejects(r, err)

HandlerSpec == HandlerInit /\ [][HandlerNext]_vars

----------------------------------------------------------------------------
(* Properties of the middleware chain *)

\* the request has entered the stage
Entered(req, stage) == \E k \in DOMAIN req.entered : req.entered[k] = stage

\* s is an initial part of t
IsPrefix(s, t) ==
    /\ Len(s) <= Len(t)
    /\ \A k \in DOMAIN s : s[k] = t[k]

\* C12: once the deadline of timeoutMiddleware has tripped, the upstream
\* call of the request is no longer in flight (it was cancelled or had
\* settled), and nothing but that deadline ever cancels an upstream call.
C12_DeadlineGovernsUpstream ==
    \A r \in DOMAIN requests :
        /\ requests[r].deadline = "tripped" => requests[r].upstreamState # "inflight"
        /\ requests[r].cancelledBy \in {"none", "deadline"}

\* C13: a request whose deadline tripped while its upstream call had not
\* succeeded is answered 504 with error type timeout_error.
C13_DeadlineAnswers504 ==
    \A r \in DOMAIN requests :
        (requests[r].pc = "done" /\ requests[r].deadline = "tripped")
            => (requests[r].status = 504 /\ requests[r].errorType = "timeout_error")

\* the order of the stages as the specification declares it
DeclaredOrder ==
    <<"tracing", "logger", "gate", "auth", "bodyLimit", "validate", "rateLimit",
      "timeout", "smartRouter", "cache", "handler">>

\* C14: the stages a request has entered are an initial part of the declared
\* order (tracing, request logger, shutdown gate, auth, body limit, body
\* validation, rate limit, deadline, smart router, semantic cache, chat
\* handler); the stages it has left are the last ones it entered, in reverse,
\* so that nothing is entered after a stage has answered; when the response
\* goes out every stage entered has been left.
C14_DeclaredOrderAndUnwinding ==
    \A r \in DOMAIN requests :
        LET req == requests[r]
            n == Len(req.entered)
        IN /\ IsPrefix(req.entered, DeclaredOrder)
           /\ Len(req.left) <= n
           /\ \A k \in DOMAIN req.left : req.left[k] = req.entered[n + 1 - k]
           /\ req.pc = "done" => Len(req.left) = n

\* the Authorization header is `Bearer <the configured gateway key>`
GoodAuthorization(authHeader) ==
    authHeader = [scheme |-> "Bearer ", token |-> GATEWAY_API_KEY]

\* the request reached authMiddleware with a header it must refuse
RefusedByAuth(req) == Entered(req, "auth") /\ ~GoodAuthorization(req.authHeader)

C16_DeniedImmediately429 ==
    \A r \in DOMAIN requests :
        LET req == requests[r]
        IN /\ req.limited # "none" =>
                (req.limited = "denied" <=> req.tokensSeen < MilliTokens)
           /\ req.limited = "denied" =>
                /\ req.status = 429
                /\ req.errorType = "rate_limit_error"
                /\ req.retryAfter >= 1
                /\ req.limitHeader = RATE_LIMIT_MAX_TOKENS
                /\ req.remainingHeader = 0
                /\ req.entered[Len(req.entered)] = "rateLimit"
                /\ req.upstream = "none"

\* the headroom of an entry at time t, from its fields: requests remain, or
\* the reset time is not ahead
Headroom(entry, t) ==
    \/ entry.rateLimitRemaining > 0
    \/ entry.rateLimitResetAt <= t

\* the providers of the registry that may be selected at time t
Eligible(reg, t) ==
    {p \in DOMAIN reg : ~InCooldown(reg[p], t) /\ Headroom(reg[p], t)}

\* C22: the provider the smart router gets from selectProvider is one whose
\* circuit admits requests and that has rate-limit headroom at the time of
\* the snapshot; when the registry holds no such provider (or no provider at
\* all) selectProvider throws, and the smart router answers 503 server_error
\* and returns without calling next().
C22_SelectsOnlyEligibleElse503 ==
    [][\A r \in DOMAIN requests, hints \in RequestHints :
          (SmartRouter(r, hints) /\ requests[r].model # "none") =>
              /\ requests'[r].selected # "none" =>
                    requests'[r].selected \in Eligible(providers, now)
              /\ selectProvider(<< >>, << >>, now,
                                [model |-> requests[r].model,
                                 stream |-> requests[r].stream, hints |-> hints],
                                capabilities).throws
              /\ Eligible(providers, now) = {} =>
                    /\ requests'[r].selected = "none"
                    /\ requests'[r].status = 503
                    /\ requests'[r].errorType = "server_error"
                    /\ requests'[r].pc = "timeoutPost"
                    /\ requests'[r].entered[Len(requests'[r].entered)] = "smartRouter"
                    /\ requests'[r].left = <<"smartRouter">>]_vars

\* a provider was selected while another one was not eligible
C22_Witness ==
    \E r \in DOMAIN requests :
        /\ requests[r].pc = "cache"
        /\ requests[r].selected # "none"
        /\ \E p \in DOMAIN providers : p \notin Eligible(providers, now)

C29_UnknownProviderRejected400 ==
    \A r \in DOMAIN requests :
        LET req == requests[r]
        IN (Entered(req, "rateLimit") /\ req.model # "none"
                /\ detectProvider(req.model) = "null")
           => /\ req.status = 400
              /\ req.errorType = "invalid_request_error"
              /\ req.entered[Len(req.entered)] = "rateLimit"
              /\ req.upstream = "none"

\* C4: the upstream call of a request goes to the provider the smart router
\* selected for it, and no upstream call goes to a provider whose circuit is
\* open and within its cooldown.
C4_UpstreamIsSelectedProvider ==
    \A r \in DOMAIN requests :
        requests[r].upstream # "none" =>
            /\ requests[r].upstream = requests[r].selected
            /\ ~requests[r].upstreamOpen

\* C5: an upstream 5xx or network failure reaches the client only after
\* every provider ranked for the request has been tried (a retryable failure
\* of the first provider fails over to the next one).
C5_FailoverBeforeSurfacing ==
    \A r \in DOMAIN requests :
        (requests[r].pc = "done" /\ requests[r].upstreamFailed
         /\ requests[r].status # 429) =>
            requests[r].ranked \subseteq requests[r].tried

\* C6: a request for which the smart router selected a provider has, once
\* the chain is done, exactly one outcome reported for that provider:
\* reportSuccess for a status in 200..399 and reportError otherwise, the
\* case of next() rejecting included.
C6_ExactlyOneOutcomeReported ==
    \A r \in DOMAIN requests :
        (requests[r].pc = "done" /\ requests[r].selected # "none") =>
            /\ requests[r].reports = 1
            /\ requests[r].reported =
                  IF ~requests[r].threw /\ requests[r].status >= 200
                     /\ requests[r].status < 400
                  THEN "success" ELSE "error"

\* C30: the deadline of a request is its X-Timeout-Ms header clamped to
\* [1000, 120000] ms when the header is there and valid (it starts with a
\* positive decimal number); otherwise the configured timeout of the provider
\* detected from its model; otherwise the default timeout
C30_DeadlineResolution ==
    \A r \in DOMAIN requests :
       LET req == requests[r]
           parsed == parseInt(req.timeoutHeader)
           provider == IF req.model = "none" THEN "null" ELSE detectProvider(req.model)
       IN Entered(req, "timeout") =>
             IF req.timeoutHeader # NoTimeoutHeader /\ parsed # NaN /\ parsed > 0
             THEN /\ req.timeoutMs >= 1000
                  /\ req.timeoutMs <= 120000
                  /\ (parsed >= 1000 /\ parsed <= 120000) => req.timeoutMs = parsed
                  /\ parsed < 1000 => req.timeoutMs = 1000
                  /\ parsed > 120000 => req.timeoutMs = 120000
             ELSE IF provider = "openai" THEN req.timeoutMs = TIMEOUT_OPENAI_MS
             ELSE IF provider = "anthropic" THEN req.timeoutMs = TIMEOUT_ANTHROPIC_MS
             ELSE IF provider = "google" THEN req.timeoutMs = TIMEOUT_GOOGLE_MS
             ELSE req.timeoutMs = DefaultTimeoutMs

\* a header above the maximum was clamped for a request whose provider is
\* configured with another timeout
C30_Witness ==
    \E r \in DOMAIN requests :
       /\ Entered(requests[r], "timeout")
       /\ requests[r].model = "claude-haiku-3-5"
       /\ parseInt(requests[r].timeoutHeader) > MAX_TIMEOUT_MS
       /\ requests[r].timeoutMs = MAX_TIMEOUT_MS

----------------------------------------------------------------------------
(* Properties of the semantic cache *)

\* the step is a lookup of request r in the cache by semanticCacheMiddleware
CacheLookup(r) ==
    /\ requests[r].pc = "cache"
    /\ cacheApplies(cacheEnabled, requests'[r].skipCache, requests[r])
    /\ \E skipCache \in BOOLEAN, fault \in CacheFaults, id \in ResponseIds :
          SemanticCache(r, skipCache, fault, id)

C25_HitOnlyOnEqualParameters ==
    [][\A r \in DOMAIN requests :
          (CacheLookup(r) /\ requests'[r].xCache = "HIT") =>
             \E d \in cache :
                /\ d.model = requests[r].model
                /\ d.response = requests'[r].body.content
                /\ cosineDistance(requests[r].prompt, d.query) <= similarityThreshold
                /\ d.temperature = requests[r].temperature
                /\ d.maxTokens = requests[r].maxTokens]_vars

\* the request is the same as the one the document was stored for
SameRequest(req, d) ==
    /\ d.model = req.model
    /\ d.query = req.prompt
    /\ d.temperature = req.temperature
    /\ d.maxTokens = req.maxTokens
    /\ d.stream = req.stream

\* C26: cache reads are idempotent: a non-streaming request that is looked
\* up when the response to the same request is in the cache is answered
\* X-Cache: HIT with the body the first one was answered with, and no
\* upstream call is made for it
C26_IdempotentRead ==
    [][\A r \in DOMAIN requests :
          (/\ CacheLookup(r)
           /\ ~requests'[r].lookupFailed
           /\ \E d \in cache : SameRequest(requests[r], d)) =>
             /\ requests'[r].xCache = "HIT"
             /\ requests'[r].status = 200
             /\ requests'[r].pc = "post"
             /\ requests'[r].upstream = "none"
             /\ \E d \in cache :
                   SameRequest(requests[r], d) /\ requests'[r].body = d.body]_vars

\* the request goes round the cache
Bypasses(req) == ~cacheEnabled \/ req.skipCache \/ req.stream

\* C27: the cache is neither consulted nor written for a request when the
\* cache is disabled, the request carries X-Skip-Cache: true or asks for a
\* stream; a response is written to the cache only for a non-streaming
\* request that missed and was answered with status 200
C27_BypassAndStoreConditions ==
    /\ \A r \in DOMAIN requests :
          (Entered(requests[r], "cache") /\ Bypasses(requests[r])) =>
             /\ ~requests[r].looked
             /\ ~requests[r].lookupFailed
             /\ requests[r].xCache # "HIT"
             /\ \A d \in cache \cup stores : d # cacheEntry(requests[r])
    /\ \A d \in cache \cup stores :
          /\ cacheEnabled
          /\ ~d.stream
          /\ ~d.skipCache
          /\ d.xCache = "MISS"
          /\ d.status = 200

\* with the cache enabled and a document in it, a request with X-Skip-Cache
\* was answered 200 by the provider and the cache middleware returned
C27_Witness ==
    \E r \in DOMAIN requests :
       /\ cacheEnabled
       /\ cache # {}
       /\ requests[r].skipCache
       /\ requests[r].status = 200
       /\ requests[r].upstream # "none"
       /\ requests[r].pc = "post"
       /\ \E d \in cache : d.model = requests[r].model /\ d.query = requests[r].prompt

\* C28: a failure of the cache never fails or alters the outcome of the
\* request: a lookup that fails (embedding, search, client) is a miss and
\* the request goes on to the provider; the call of cacheResponse and its
\* end, failed or not, leave every request as it is answered
C28_CacheFailureIsHarmless ==
    [][/\ \A r \in DOMAIN requests :
             (CacheLookup(r) /\ requests'[r].lookupFailed) =>
                requests'[r] = [Enter(requests[r], "cache") EXCEPT
                                   !.skipCache = FALSE,
                                   !.looked = TRUE,
                                   !.lookupFailed = TRUE,
                                   !.xCache = "MISS",
                                   !.pc = "validate"]
       /\ \A entry \in stores, fault \in CacheFaults :
             StoreSettles(entry, fault) => requests' = requests
       /\ \A r \in DOMAIN requests :
             CacheStore(r) =>
                requests' = [requests EXCEPT ![r] =
                                [requests[r] EXCEPT !.left = Append(@, "cache"),
                                                    !.pc = "post"]]]_vars

\* a request whose lookup failed was answered 200 by the provider, and the
\* store of its response failed too
C28_Witness ==
    \E r \in DOMAIN requests :
       /\ requests[r].lookupFailed
       /\ requests[r].xCache = "MISS"
       /\ requests[r].status = 200
       /\ requests[r].upstream # "none"
       /\ requests[r].pc = "post"
       /\ stores = {}
       /\ cache = {}

----------------------------------------------------------------------------
(* Properties of the error handler *)

\* C31: the terminal error handler maps an upstream 4xx to the type for its
\* status (401 authentication_error, 403 permission_error, 404
\* not_found_error, 429 rate_limit_error, any other 4xx
\* invalid_request_error), a retryable upstream error (5xx, or no status) to
\* a 5xx response of type api_error, all-providers-failed to 503
\* server_error, and any other error to 500 internal_error
C31_ErrorMapping ==
    [][\A r \in DOMAIN requests, err \in HandlerErrors :
          UpstreamRejects(r, err) =>
             LET status == requests'[r].status
                 type == requests'[r].errorType
                 s == err.statusCode
             IN /\ (err.kind = "APICallError" /\ s # NULL /\ s >= 400 /\ s < 500) =>
                      type = CASE s = 401 -> "authentication_error"
                               [] s = 403 -> "permission_error"
                               [] s = 404 -> "not_found_error"
                               [] s = 429 -> "rate_limit_error"
                               [] OTHER -> "invalid_request_error"
                /\ (err.kind = "APICallError" /\ (s = NULL \/ s >= 500)) =>
                      status >= 500 /\ status < 600 /\ type = "api_error"
                /\ err.kind = "AllProvidersFailedError" =>
                      status = 503 /\ type = "server_error"
                /\ err.kind = "Error" =>
                      status = 500 /\ type = "internal_error"]_vars

\* C32: in production the error message returned to the client is independent
\* of the upstream provider's message: whatever the class of the error, an
\* upstream API error included, the client is given a generic message and
\* never the message of the error
C32_MessageMasked ==
    [][\A r \in DOMAIN requests, err \in HandlerErrors :
          (nodeEnv = "production" /\ UpstreamRejects(r, err)) =>
             requests'[r].message \notin UpstreamMessages]_vars

----------------------------------------------------------------------------
(* Frame of the provider registry *)

\* C35: the circuit-breaker and latency state of a provider change only as
\* the result of an upstream call to that provider: a step that changes the
\* consecutive-error count, the circuit state or the latency EMA of p is the
\* step of a request that called p upstream, so a request that ends without
\* an upstream call (rate-limit denial, validation rejection, cache hit)
\* leaves the state of every provider unchanged
C35_RegistryFrame ==
    [][\A p \in AllProviders :
          (\/ providers'[p].consecutiveErrors # providers[p].consecutiveErrors
           \/ providers'[p].circuitOpenedAt # providers[p].circuitOpenedAt
           \/ latency'[p].ema # latency[p].ema)
          => \E r \in DOMAIN requests :
                /\ requests'[r] # requests[r]
                /\ requests[r].upstream = p
                /\ requests[r].upstreamState # "none"]_vars

\* C40: in every getProviderStates snapshot a provider reported available
\* has fewer than CIRCUIT_BREAKER_THRESHOLD consecutive errors; equivalently,
\* whenever a circuit is closed its consecutive-error count is below the
\* threshold
C40_AvailableBelowThreshold ==
    /\ \A id \in DOMAIN providers :
          getProviderStates(providers, latency, now)[id].available =>
             getProviderStates(providers, latency, now)[id].consecutiveErrors
                < CIRCUIT_BREAKER_THRESHOLD
    /\ \A id \in DOMAIN providers :
          providers[id].circuitOpenedAt = NULL =>
             providers[id].consecutiveErrors < CIRCUIT_BREAKER_THRESHOLD

\* a snapshot taken now reports available a provider whose circuit opened
\* at the threshold and whose cooldown has elapsed
C40_Witness ==
    \E id \in DOMAIN providers :
       /\ providers[id].circuitOpenedAt # NULL
       /\ providers[id].consecutiveErrors >= CIRCUIT_BREAKER_THRESHOLD
       /\ getProviderStates(providers, latency, now)[id].available

----------------------------------------------------------------------------
(* Properties of the rules engine *)

\* C39: a provider with no observed latency satisfies no latency rule (it
\* gets no boost from one) and is scored with the default latency of 500 ms,
\* not with 0 ms
C39_UnobservedLatencyDefault ==
    [][\A r \in DOMAIN requests, hints \in RequestHints :
          SmartRouter(r, hints) =>
             LET states == Table(getProviderStates(providers, latency, now))
                 sel == selectProvider(providers, latency, now,
                                       [model |-> requests[r].model,
                                        stream |-> requests[r].stream,
                                        hints |-> hints],
                                       capabilities)
             IN \A k \in DOMAIN sel.available :
                   latency[sel.available[k].provider].samples = << >> =>
                      /\ \A rule \in DEFAULT_ROUTING_RULES :
                            rule.condition.type = "latency" =>
                               rule.id \notin sel.available[k].matchedRules
                      /\ computeLatency(states[sel.available[k].provider])
                            = DEFAULT_LATENCY_MS]_vars

----------------------------------------------------------------------------
(* Properties of selectWithFallback *)

\* C37: selectWithFallback attempts the ranked candidates in rank order and
\* calls execute with each candidate's own (provider, modelId) pair, so the
\* first execute call uses the model of the top-ranked candidate; and every
\* execute call that settles is reported to the registry exactly once, as a
\* success or as an error
C37_OwnPairOneReport ==
    /\ [](fbConfig.ranked # << >> =>
            /\ \A k \in DOMAIN execLog :
                  /\ execLog[k].provider = fbConfig.ranked[execLog[k].idx].provider
                  /\ execLog[k].modelId = fbConfig.ranked[execLog[k].idx].modelId
            /\ \A k \in DOMAIN execLog :
                  k > 1 => execLog[k].idx >= execLog[k - 1].idx
            /\ execLog # << >> => execLog[1].modelId = fbConfig.ranked[1].modelId)
    /\ [][fbConfig.ranked # << >> =>
            /\ (\E value \in {"value", "undefined"} : ExecuteResolves(value)) =>
                  \E latencyMs \in ExecuteLatencies :
                     DoReportSuccess(fbConfig.providers[fbIdx], latencyMs)
            /\ (\E retryable \in BOOLEAN : ExecuteRejects(retryable)) =>
                  DoReportError(fbConfig.providers[fbIdx])]_vars

----------------------------------------------------------------------------
(* Properties of the configured routes *)

\* C38: with rate limiting enabled every model name of ROUTE_CONFIG, the
\* aliases smart-model and fast-model included, is accepted by the pipeline
\* (the rate limiter does not reject it as a bad request) and is served by
\* its primary target, or by the next configured target when the model of
\* the primary cannot be constructed
C38_ConfiguredNamesServed ==
    [][\A r \in DOMAIN requests :
          (rateLimitEnabled /\ requests[r].model \in DOMAIN ROUTE_CONFIG) =>
             LET targets == ROUTE_CONFIG[requests[r].model]
                 served == IF targets[1].provider \in apiKeys \/ Len(targets) = 1
                           THEN targets[1] ELSE targets[2]
             IN /\ (\E skew \in ClockSkews : RateLimiter(r, skew)) =>
                      requests'[r].status # 400
                /\ (ChatHandler(r) /\ served.provider \in apiKeys) =>
                      requests'[r].upstream = served.provider]_vars

----------------------------------------------------------------------------
(* Properties of the trackers *)

\* C34: after any sequence of recordRequest, recordError and recordSuccess
\* calls, the error rate getProviderHealth returns for a provider, and the
\* global one of getErrorSummary, lies between 0 and 1
C34_ErrorRateWithinUnit ==
    /\ \A p \in {"openai", "anthropic", "google"} :
          LET rate == getProviderHealth(errorTracker, p, now, totalRequests).errorRate
          IN 0 <= rate.num /\ rate.num <= rate.den
    /\ LET rate == getErrorSummary(errorTracker, now, totalRequests).errorRate
       IN 0 <= rate.num /\ rate.num <= rate.den

\* C36: recordCost always completes normally, and after it the per-model
\* table has an entry for the model just recorded, with at least one
\* request, and never more than MAX_MODEL_ENTRIES entries: also when the
\* model is new and the table is full
C36_RecordedModelPresent ==
    costTracker.lastCall.modelId # "none" =>
       /\ ~costTracker.lastCall.threw
       /\ \E k \in DOMAIN costTracker.byModel :
             /\ costTracker.byModel[k].key = costTracker.lastCall.modelId
             /\ costTracker.byModel[k].requests >= 1
       /\ Len(costTracker.byModel) <= MAX_MODEL_ENTRIES

============================================================================
